---------------------------- MODULE Spec2Model ----------------------------
(***************************************************************************)
(* Model of the crawl orchestrator of the repository:                      *)
(*   - the port allocator and the profile pool of OptimizedBatchImporter   *)
(*     (src/utils/batch_import_optimized.py),                              *)
(*   - the batch run _crawl_asins_optimized with its per-item crawl tasks, *)
(*     also when the run is cancelled,                                     *)
(*   - the steps of AmazonCrawler.crawl_product and the persistence step   *)
(*     save_to_database on a pooled session                                *)
(*     (src/crawler/amazon_crawler.py),                                    *)
(*   - the scheduler's single-item entry points and its watch-list         *)
(*     operations (src/scheduler/crawler_scheduler.py),                    *)
(*   - the change detector and its change history                          *)
(*     (src/crawler/change_detector.py),                                   *)
(*   - the pool operations step by step, with their two locks, for         *)
(*     several coroutines that call into the shared importer,              *)
(*   - the driver pool and the worker threads of OptimizedAmazonCrawler    *)
(*     (src/crawler/optimized_crawler.py).                                 *)
(*                                                                         *)
(* The importer runs on one asyncio event loop.  Code between two          *)
(* suspension points runs atomically; acquiring a free asyncio.Lock and    *)
(* awaiting a coroutine that never suspends do not yield.  No pool or      *)
(* allocator method suspends while it holds a lock, so each of them is one *)
(* action.  A crawl task suspends at each asyncio.to_thread call; the      *)
(* actions of a task are the pieces between those calls.  LockSpec drops   *)
(* the atomicity and lets a coroutine wait at every "async with".          *)
(***************************************************************************)
EXTENDS Integers, FiniteSets, Sequences, TLC

(***************************************************************************)
(* Bounds of the model.  The source uses max_profiles = 50 and the 778     *)
(* ports 9222..9999; the model keeps the relation port_pool > max_profiles *)
(* at a size TLC can enumerate.                                            *)
(***************************************************************************)
max_profiles == 2

MaxClock == 3

MaxItems == 2

MaxBatch == 2

MaxCalls == 2

FirstPort == 9222

NumPorts == max_profiles + 1

port_pool == FirstPort .. (FirstPort + NumPorts - 1)

\* profile ids a caller may ask for: one more than the pool can hold
ProfileIds == 0 .. max_profiles

\* one more item than the pool has profiles: a batch wider than the pool
WideLen == max_profiles + 1

\* the positions of a work list
Items == 1 .. (IF MaxItems > WideLen THEN MaxItems ELSE WideLen)

VARIABLES
    profile_pool,   \* profile_id -> [port, delivery_set, created_at, driver]
    used_ports,     \* the allocator's held-set
    now,            \* datetime.utcnow(), a logical clock
    asin_data,      \* the work list: [n |-> length, dicts |-> item shape]
    batch_size,     \* the batch_size argument of the run
    run_pc,         \* position of _crawl_asins_optimized
    batch_start,    \* the loop variable i of _crawl_asins_optimized
    crawl_results,  \* the statistics dictionary of the run
    task,           \* position of each item's crawl task
    task_success,   \* product_data['crawl_success'] held by a task
    result,         \* what gather received from each item's task
    snapshots,      \* ProductCrawlHistory rows written per item in the run
    watchlist,      \* whether the item's watch entry was advanced in the run
    run_ports,      \* ports bound to a profile created during the run
    single,         \* the scheduler's single-item entry points
    asin_watchlist, \* the rows of the asin_watchlist table, in insert order
    op_result,      \* what the last watch-list operation returned
    history,        \* the item's product_crawl_history rows: [age, success]
    old_data,       \* the snapshot of yesterday's latest successful row
    new_data,       \* the snapshot the crawl just produced
    crawl_success,  \* new_data['crawl_success'] of that crawl
    changes,        \* what the last _compare_data call returned
    detect_result,  \* what the last detect_and_notify_changes call returned
    dispatched,     \* how often send_notification was invoked
    compare_calls,  \* how often _compare_data was called
    session,        \* one pooled session and the crawl task running on it
    sleeps,         \* how often the run slept between two batches
    crawl_rows,     \* the item's rows inside the window, newest first
    change_history, \* what the last get_change_history call returned
    acquired,       \* the last _get_available_port call: port and held-set
    procs,          \* the coroutines calling into the shared importer
    profile_lock,   \* the coroutine inside "async with self.profile_lock"
    port_lock,      \* the coroutine inside "async with self.port_lock"
    driver_pool,    \* OptimizedAmazonCrawler.driver_pool: the queued drivers
    drivers,        \* the drivers created so far and the ones quit
    jobs            \* the tasks crawl_batch submitted to its executor

watchVars == <<asin_watchlist, op_result>>

diffVars == <<history, old_data, new_data, crawl_success, changes,
              detect_result, dispatched, compare_calls>>

stepVars == <<session, sleeps>>

histVars == <<crawl_rows, change_history>>

lockVars == <<procs, profile_lock, port_lock>>

driverVars == <<driver_pool, drivers, jobs>>

sideVars == <<histVars, acquired, lockVars, driverVars>>

extVars == <<watchVars, diffVars, stepVars, sideVars>>

vars == <<profile_pool, used_ports, now, asin_data, batch_size, run_pc,
          batch_start, crawl_results, task, task_success, result, snapshots,
          watchlist, run_ports, single, extVars>>

poolVars == <<profile_pool, used_ports, now>>

runVars == <<asin_data, batch_size, run_pc, batch_start, crawl_results, task,
             task_success, result, snapshots, watchlist, run_ports>>

\* the state of the batch run, the single-item crawls, the watch list, the
\* detector and the pooled session
mainVars == <<runVars, single, watchVars, diffVars, stepVars>>

-----------------------------------------------------------------------------
(***************************************************************************)
(* Port allocator: _get_available_port, _release_port                      *)
(***************************************************************************)

\* available_ports = [p for p in self.port_pool if p not in self.used_ports]
AvailablePorts(used) == port_pool \ used

\* faulty variant of PortChoices: a port is drawn from the whole range
PortChoicesAny(used) == port_pool

\* the ports random.choice draws from: when none is free the held-set is
\* cleared and every port of the range is a candidate again
PortChoices(used) ==
    IF AvailablePorts(used) = {} THEN port_pool ELSE AvailablePorts(used)

\* the held-set after _get_available_port returned p
UsedAfterAcquire(used, p) ==
    (IF AvailablePorts(used) = {} THEN {} ELSE used) \cup {p}

\* self.used_ports.discard(port)
UsedAfterRelease(used, p) == used \ {p}

-----------------------------------------------------------------------------
(***************************************************************************)
(* Profile pool: _get_or_create_profile, _release_profile, cleanup         *)
(***************************************************************************)

Residents(pool) == DOMAIN pool

\* faulty variant of PoolFull: the capacity test is off by one
PoolFullOffByOne(pool) == Cardinality(Residents(pool)) > max_profiles

\* len(self.profile_pool) >= self.max_profiles
PoolFull(pool) == Cardinality(Residents(pool)) >= max_profiles

\* oldest_profile_id = min(self.profile_pool.keys())
OldestProfileId(pool) ==
    CHOOSE x \in Residents(pool) : \A y \in Residents(pool) : x <= y

\* self.profile_pool.pop(profile_id)
PoolWithout(pool, id) == [x \in Residents(pool) \ {id} |-> pool[x]]

\* self.profile_pool[profile_id] = profile
PoolWith(pool, id, profile) ==
    [x \in Residents(pool) \cup {id} |-> IF x = id THEN profile ELSE pool[x]]

NewProfile(p, t) ==
    [port |-> p, delivery_set |-> FALSE, created_at |-> t, driver |-> FALSE]

\* the pool after the eviction branch of _get_or_create_profile
PoolAfterEviction(pool) ==
    IF PoolFull(pool) THEN PoolWithout(pool, OldestProfileId(pool)) ELSE pool

\* the held-set after the eviction branch of _get_or_create_profile
UsedAfterEviction(pool, used) ==
    IF PoolFull(pool)
    THEN UsedAfterRelease(used, pool[OldestProfileId(pool)].port)
    ELSE used

(***************************************************************************)
(* _get_or_create_profile(id) for a profile id that is not resident.       *)
(* ctor_ok = FALSE is AmazonCrawler() raising (get_db_session failed):     *)
(* the eviction and the port acquisition have happened by then, nothing is *)
(* stored and the exception reaches the caller.                            *)
(***************************************************************************)
CreateProfile(id, ctor_ok) ==
    /\ id \notin Residents(profile_pool)
    /\ now < MaxClock
    /\ LET pool1 == PoolAfterEviction(profile_pool)
           used1 == UsedAfterEviction(profile_pool, used_ports)
       IN \E p \in PortChoices(used1) :
            /\ used_ports' = UsedAfterAcquire(used1, p)
            /\ IF ctor_ok
               THEN /\ profile_pool' = PoolWith(pool1, id, NewProfile(p, now))
                    /\ now' = now + 1
               ELSE /\ profile_pool' = pool1
                    /\ now' = now

\* faulty variant of ReuseProfile: the resident's setup-done flag is reset
ReuseProfileReset(id) ==
    /\ id \in Residents(profile_pool)
    /\ profile_pool' = [profile_pool EXCEPT ![id].delivery_set = FALSE]
    /\ UNCHANGED <<used_ports, now>>

\* _get_or_create_profile(id) for a resident id: the resident is returned
ReuseProfile(id) ==
    /\ id \in Residents(profile_pool)
    /\ UNCHANGED poolVars

\* faulty variant of UsedAfterReleaseAll: the ports are not given back
UsedAfterReleaseNone(pool, used, ids) == used

\* the held-set after cleanup / _release_profile released the given profiles
UsedAfterReleaseAll(pool, used, ids) ==
    used \ {pool[x].port : x \in ids}

\* cleanup(): close every resident, release its port, clear the pool
CleanupPool ==
    /\ used_ports' = UsedAfterReleaseAll(profile_pool, used_ports,
                                         Residents(profile_pool))
    /\ profile_pool' = <<>>
    /\ UNCHANGED now

-----------------------------------------------------------------------------
(***************************************************************************)
(* The operations of the pool and the allocator, called in any order.      *)
(***************************************************************************)

GetOrCreateProfile ==
    /\ \E id \in ProfileIds :
          \/ ReuseProfile(id)
          \/ \E ctor_ok \in BOOLEAN : CreateProfile(id, ctor_ok)
    /\ UNCHANGED <<runVars, single, extVars>>

ReleaseProfile ==
    /\ \E id \in ProfileIds :
          /\ id \in Residents(profile_pool)
          /\ used_ports' = UsedAfterReleaseAll(profile_pool, used_ports, {id})
          /\ profile_pool' = PoolWithout(profile_pool, id)
    /\ UNCHANGED <<now, runVars, single, extVars>>

Cleanup ==
    /\ profile_pool # <<>>
    /\ CleanupPool
    /\ UNCHANGED <<runVars, single, extVars>>

\* the ports bound to resident profiles
BoundPorts(pool) == {pool[x].port : x \in Residents(pool)}

\* a direct caller of _get_available_port is given a port
GetAvailablePort ==
    /\ \E p \in PortChoices(used_ports) :
          used_ports' = UsedAfterAcquire(used_ports, p)
    /\ UNCHANGED <<profile_pool, now, runVars, single, extVars>>

\* a direct caller of _release_port gives back a held port; the ports of
\* the resident profiles are given back by the pool only
ReleasePort ==
    /\ \E p \in used_ports \ BoundPorts(profile_pool) :
          used_ports' = UsedAfterRelease(used_ports, p)
    /\ UNCHANGED <<profile_pool, now, runVars, single, extVars>>

\* enough calls to find every port held and to ask once more
MaxAcquire == NumPorts + 1

\* _get_available_port() called and its result kept: acquired.before is
\* the held-set the call found, acquired.port the port it returned
AcquirePort ==
    /\ acquired.calls < MaxAcquire
    /\ \E p \in PortChoices(used_ports) :
          /\ used_ports' = UsedAfterAcquire(used_ports, p)
          /\ acquired' = [port |-> p, before |-> used_ports,
                          calls |-> acquired.calls + 1]
    /\ UNCHANGED <<profile_pool, now, mainVars, histVars, lockVars,
                   driverVars>>

\* the allocator alone, as CrawlerScheduler and BatchImporter use theirs:
\* ports are acquired and released, no profile binds one
PortNext ==
    \/ AcquirePort
    \/ ReleasePort

-----------------------------------------------------------------------------
(***************************************************************************)
(* Change detector: ChangeDetector._get_field_value_for_compare,           *)
(* _equal_value and _compare_data (src/crawler/change_detector.py).        *)
(*                                                                         *)
(* A Python value is a tagged record: None, a number (kept in thousandths, *)
(* so 10.004 is 10004), a list of strings (a string is its rank in the     *)
(* lexicographic order), a dict (a set of <<key, value>> pairs), or a      *)
(* string (its text without the surrounding whitespace, and whether it     *)
(* has surrounding whitespace).                                            *)
(* A snapshot maps each monitored field to a value; a field the dictionary *)
(* does not hold reads as None, as old_data.get(field) does.               *)
(***************************************************************************)

MaxLen == 3

MaxCompare == 2

\* one unit of a number: the model counts in thousandths
Scale == 1000

None == [t |-> "none"]

Num(x) == [t |-> "num", v |-> x]

List(s) == [t |-> "list", v |-> s]

Dict(d) == [t |-> "dict", v |-> d]

Str(text, pad) == [t |-> "str", v |-> text, pad |-> pad]

StringFields == {"title"}

IntFields == {"image_count"}

FloatFields == {"sale_price", "rating"}

ListFields == {"image_urls"}

StructFields == {"product_information"}

\* the monitored fields the model follows, at least one of each kind
Fields ==
    IntFields \cup FloatFields \cup ListFields \cup StructFields
        \cup StringFields

\* config['type'] of a monitored field
TypeOf(f) ==
    IF f \in IntFields THEN "int" ELSE IF f \in FloatFields THEN "float"
    ELSE IF f \in StringFields THEN "string"
    ELSE "json"

\* config['threshold'] of a numeric monitored field, in thousandths
Threshold(f) ==
    IF f = "sale_price" THEN 10 ELSE IF f = "rating" THEN 100 ELSE Scale

\* a snapshot that holds no monitored field
NoData == [f \in Fields |-> None]

Abs(x) == IF x < 0 THEN 0 - x ELSE x

\* int(value) of a number: the fraction is cut off
IntOf(x) == (x \div Scale) * Scale

RECURSIVE Insert(_, _)
\* x put at its place in the sorted sequence s
Insert(x, s) ==
    IF s = <<>> THEN <<x>>
    ELSE IF x <= Head(s) THEN <<x>> \o s
    ELSE <<Head(s)>> \o Insert(x, Tail(s))

RECURSIVE Sorted(_)
\* sorted([str(x) for x in value])
Sorted(s) == IF s = <<>> THEN <<>> ELSE Insert(Head(s), Sorted(Tail(s)))

\* the keys of a dict
Keys(d) == {kv[1] : kv \in d}

\* d[k] of a dict that holds k
ValueAt(d, k) == (CHOOSE kv \in d : kv[1] = k)[2]

\* not d or (len(d) == 1 and 'full_details' in d and not d['full_details'])
EmptyStandIn(d) ==
    \/ d = {}
    \/ /\ Cardinality(d) = 1
       /\ "full_details" \in Keys(d)
       /\ ValueAt(d, "full_details") = ""

\* _get_field_value_for_compare(value, field)
FieldValueForCompare(value, field) ==
    IF field \in IntFields
    THEN IF value.t = "num" THEN Num(IntOf(value.v)) ELSE value
    ELSE IF field \in FloatFields
    THEN value
    ELSE IF field \in ListFields
    THEN IF value.t = "list" THEN List(Sorted(value.v))
         ELSE IF value.t = "none" THEN List(<<>>)
         ELSE value
    ELSE IF field \in StructFields
    THEN IF value.t = "none" THEN Dict({})
         ELSE IF value.t = "dict"
         THEN IF EmptyStandIn(value.v) THEN Dict({}) ELSE value
         ELSE Dict({})
    ELSE value

\* the texts float() accepts; it strips the surrounding whitespace itself
FloatTexts == {"1", "1.0", "nan"}

\* float(text) in thousandths, for a text float() accepts that is not nan
FloatOfText(text) == Scale

\* float(a) == float(b) for two strings float() accepts: nan equals nothing
FloatsEqual(a, b) ==
    /\ a # "nan"
    /\ b # "nan"
    /\ FloatOfText(a) = FloatOfText(b)

\* the branch of _equal_value for two strings: float(a) == float(b), and
\* str(a) == str(b) when float() raises
StrEqual(a, b) ==
    IF a.v \in FloatTexts /\ b.v \in FloatTexts
    THEN FloatsEqual(a.v, b.v)
    ELSE a.v = b.v /\ a.pad = b.pad

\* _equal_value(a, b)
EqualValue(a, b) ==
    IF a.t = "none" /\ b.t = "none" THEN TRUE
    ELSE IF a.t = "none" \/ b.t = "none" THEN FALSE
    ELSE IF a.t = "dict" /\ b.t = "dict"
    THEN (EmptyStandIn(a.v) /\ EmptyStandIn(b.v)) \/ a.v = b.v
    ELSE IF a.t = "num" /\ b.t = "num" THEN a.v = b.v
    ELSE IF a.t = "str" /\ b.t = "str" THEN StrEqual(a, b)
    ELSE IF a.t = "list" /\ b.t = "list" THEN Sorted(a.v) = Sorted(b.v)
    ELSE FALSE

\* the body of the loop of _compare_data for one field: whether the field
\* is entered into changes
FieldChanged(old, new, f) ==
    LET old_value == FieldValueForCompare(old[f], f)
        new_value == FieldValueForCompare(new[f], f)
    IN /\ ~(old_value.t = "none" /\ new_value.t = "none")
       /\ ~(/\ f \in StructFields
            /\ old_value.t = "dict" /\ new_value.t = "dict"
            /\ EmptyStandIn(old_value.v) /\ EmptyStandIn(new_value.v))
       /\ ~EqualValue(old_value, new_value)

\* _compare_data(old_data, new_data): the entries of the changes dictionary
CompareData(old, new) ==
    {[field |-> f,
      old |-> FieldValueForCompare(old[f], f),
      new |-> FieldValueForCompare(new[f], f),
      type |-> TypeOf(f)] : f \in {g \in Fields : FieldChanged(old, new, g)}}

\* the fields of a changes dictionary
ChangedFields(ch) == {c.field : c \in ch}

\* the age in days of a product_crawl_history row: written today, inside
\* yesterday's window, or before it
Ages == {0, 1, 2}

\* what the item's history holds for one day: no row, a row with
\* crawl_success = True, or a row with crawl_success = False
HistoryStatus == {"none", "ok", "failed"}

NoHistory == [a \in Ages |-> "none"]

\* faulty variant of YesterdayRowFound: the latest successful row of any
\* earlier day is taken
EarlierRowFound(h) == \E a \in Ages \ {0} : h[a] = "ok"

\* _get_yesterday_crawl_data finds a row: crawl_success = True and
\* start_yesterday <= crawl_date <= end_yesterday
YesterdayRowFound(h) == h[1] = "ok"

\* faulty variant of OnDispatchFailure: no handler, the failure leaves
\* detect_and_notify_changes
OnDispatchFailurePropagates == "raised"

\* what detect_and_notify_changes returns when send_notification raises:
\* its handler returns {'error': ...}
OnDispatchFailure == "error"

\* detect_and_notify_changes(asin, new_data).  query_ok = FALSE is the
\* history query raising, which _get_yesterday_crawl_data turns into None.
\* sent tells how send_notification ended: the message was delivered, the
\* failure was swallowed inside the notification service, or it raised.
DetectAndNotify ==
    /\ detect_result = "none"
    /\ \E query_ok \in BOOLEAN :
          IF ~(query_ok /\ YesterdayRowFound(history))
          THEN /\ detect_result' = "first_crawl"
               /\ UNCHANGED <<changes, dispatched, compare_calls>>
          ELSE /\ changes' = CompareData(old_data, new_data)
               /\ compare_calls' = compare_calls + 1
               /\ IF changes' # {}
                  THEN /\ dispatched' = dispatched + 1
                       /\ \E sent \in {"sent", "swallowed", "raised"} :
                             detect_result' =
                                 IF sent = "raised" THEN OnDispatchFailure
                                 ELSE "has_changes"
                  ELSE /\ dispatched' = dispatched
                       /\ detect_result' = "no_changes"
    /\ UNCHANGED <<poolVars, runVars, single, watchVars, stepVars, sideVars,
                   history, old_data, new_data, crawl_success>>

\* a direct call of _compare_data on the two snapshots
CompareDataCall ==
    /\ compare_calls < MaxCompare
    /\ changes' = CompareData(old_data, new_data)
    /\ compare_calls' = compare_calls + 1
    /\ UNCHANGED <<poolVars, runVars, single, watchVars, stepVars, sideVars,
                   history, old_data, new_data, crawl_success,
                   detect_result, dispatched>>

\* the two list elements of the model, by rank
Urls == {1, 2}

DictKeys == {"full_details", "k"}

DictVals == {"", "x"}

\* the texts of the string values: a word and three texts float() accepts
Texts == {"abc"} \cup FloatTexts

\* the values a monitored field is given in the model
Values(f) ==
    {None} \cup
    (IF f = "image_count" THEN {Num(x) : x \in {3000, 4000}}
     ELSE IF f = "sale_price" THEN {Num(x) : x \in {10000, 10004, 10010}}
     ELSE IF f = "rating" THEN {Num(x) : x \in {4500, 4550, 4600}}
     ELSE IF f \in StringFields
     THEN {Str(text, pad) : text \in Texts, pad \in BOOLEAN}
     ELSE IF f \in ListFields
     THEN {List(l) : l \in UNION {[1 .. k -> Urls] : k \in 0 .. MaxLen}}
     ELSE {Dict(d) : d \in {e \in SUBSET (DictKeys \X DictVals) :
                              \A x \in e : \A y \in e : x[1] = y[1] => x = y}})

-----------------------------------------------------------------------------
(***************************************************************************)
(* The watch list: CrawlerScheduler.add_asin_to_watchlist,                 *)
(* add_multiple_asins, remove_asin_from_watchlist, _calculate_next_crawl   *)
(* and the _update_watchlist step that closes a crawl                      *)
(* (src/scheduler/crawler_scheduler.py, src/utils/batch_import_optimized   *)
(* .py).  A datetime is a number of instants; TicksPerDay instants make a  *)
(* day and instant CrawlTick of a day is 05:30 UTC.  A row of the table is *)
(* [asin, is_active, crawl_frequency, last_crawled, next_crawl].           *)
(***************************************************************************)

MaxTime == 2

TicksPerDay == 2

CrawlTick == 1

\* a DateTime column that holds no value
Null == 0 - 1

Asins == {"B000000001", "B000000002"}

\* the lengths of the asin_list arguments: long enough to name every ASIN,
\* or one ASIN twice
ListLengths == 1 .. Cardinality(Asins)

\* the values of crawl_frequency
Frequencies == {"daily", "weekly", "monthly"}

\* datetime.date()
Day(t) == t \div TicksPerDay

\* _calculate_next_crawl(asin_data): 05:30 UTC of the day after
\* last_crawled, or of the day after now when there is no last_crawled
CalculateNextCrawl(last_crawled, t) ==
    LET base == IF last_crawled # Null THEN last_crawled ELSE t
    IN (Day(base) + 1) * TicksPerDay + CrawlTick

\* ASINWatchlist(asin=..., crawl_frequency=..., next_crawl=...)
NewRow(a, freq, next) ==
    [asin |-> a, is_active |-> TRUE, crawl_frequency |-> freq,
     last_crawled |-> Null, next_crawl |-> next]

\* faulty variant of Existing: the lookup sees the active rows only
ExistingActive(rows, a) ==
    {i \in 1 .. Len(rows) : rows[i].asin = a /\ rows[i].is_active}

\* the rows session.query(ASINWatchlist).filter_by(asin=a) matches
Existing(rows, a) == {i \in 1 .. Len(rows) : rows[i].asin = a}

\* .first() of that query
FirstOf(found) == CHOOSE i \in found : \A k \in found : i <= k

\* the reactivation branch: is_active, crawl_frequency and next_crawl are
\* set on the existing row
Reactivated(row, freq, next) ==
    [row EXCEPT !.is_active = TRUE, !.crawl_frequency = freq,
                !.next_crawl = next]

OpResult(op, a, res) == [op |-> op, asin |-> a, result |-> res]

\* add_asin_to_watchlist(asin, crawl_frequency).  db_ok = FALSE is a query
\* or a commit raising: the handler rolls back and returns 'error'.
AddAsinToWatchlist ==
    /\ \E a \in Asins : \E freq \in Frequencies :
       \E db_ok \in BOOLEAN : \E has_crawled \in BOOLEAN :
          LET found == Existing(asin_watchlist, a)
              op == "add_asin_to_watchlist"
          IN IF ~db_ok
             THEN /\ op_result' = OpResult(op, a, "error")
                  /\ UNCHANGED asin_watchlist
             ELSE IF found # {}
             THEN LET i == FirstOf(found)
                      row == asin_watchlist[i]
                  IN IF ~row.is_active
                     THEN /\ asin_watchlist' =
                                [asin_watchlist EXCEPT ![i] =
                                    Reactivated(row, freq,
                                        CalculateNextCrawl(row.last_crawled,
                                                           now))]
                          /\ op_result' = OpResult(op, a, "reactivated")
                     ELSE /\ op_result' = OpResult(op, a, "exists")
                          /\ UNCHANGED asin_watchlist
             ELSE /\ asin_watchlist' =
                        Append(asin_watchlist,
                               NewRow(a, freq, CalculateNextCrawl(Null, now)))
                  /\ op_result' =
                        OpResult(op, a, IF has_crawled THEN "added_no_crawl"
                                        ELSE "added")
    /\ UNCHANGED <<poolVars, runVars, single, diffVars, stepVars, sideVars>>

\* the body of the loop of add_multiple_asins for one ASIN of the list.
\* st.rows are the rows the session has loaded, with the changes made to
\* them; st.pending are the rows passed to session.add, which the queries of
\* the loop do not see because the session does not autoflush.
AddOne(st, a, freq, crawl_immediately, t) ==
    LET found == Existing(st.rows, a)
    IN IF found # {}
       THEN LET i == FirstOf(found)
                row == st.rows[i]
            IN IF ~row.is_active
               THEN [st EXCEPT !.rows[i] =
                        Reactivated(row, freq,
                            IF crawl_immediately THEN t
                            ELSE CalculateNextCrawl(row.last_crawled, t))]
               ELSE st
       ELSE [st EXCEPT !.pending =
                Append(@, NewRow(a, freq,
                                 IF crawl_immediately THEN t
                                 ELSE CalculateNextCrawl(Null, t)))]

RECURSIVE AddEach(_, _, _, _, _)
\* the loop of add_multiple_asins over asin_list
AddEach(st, list, freq, crawl_immediately, t) ==
    IF list = <<>> THEN st
    ELSE AddEach(AddOne(st, Head(list), freq, crawl_immediately, t),
                 Tail(list), freq, crawl_immediately, t)

\* the unique index on asin_watchlist.asin accepts the pending rows
UniqueAsins(rows) ==
    \A i \in 1 .. Len(rows) : \A k \in 1 .. Len(rows) :
        rows[i].asin = rows[k].asin => i = k

\* session.commit() at the end of the batch: the pending rows are inserted,
\* or the commit raises and the handler rolls the whole batch back
Committed(rows, st, db_ok) ==
    IF db_ok /\ UniqueAsins(st.rows \o st.pending)
    THEN st.rows \o st.pending
    ELSE rows

\* add_multiple_asins(asin_list, crawl_frequency, crawl_immediately); the
\* clock moves on while the batch is written
AddMultipleAsins ==
    /\ now < MaxTime
    /\ \E k \in ListLengths : \E list \in [1 .. k -> Asins] :
       \E freq \in Frequencies : \E crawl_immediately \in BOOLEAN :
       \E db_ok \in BOOLEAN :
          LET st == AddEach([rows |-> asin_watchlist, pending |-> <<>>],
                            list, freq, crawl_immediately, now)
              op == "add_multiple_asins"
          IN /\ asin_watchlist' = Committed(asin_watchlist, st, db_ok)
             /\ op_result' =
                   OpResult(op, list[1],
                            IF db_ok /\ UniqueAsins(st.rows \o st.pending)
                            THEN "committed" ELSE "error")
    /\ now' = now + 1
    /\ UNCHANGED <<profile_pool, used_ports, runVars, single, diffVars,
                   stepVars, sideVars>>

\* remove_asin_from_watchlist(asin): the row is marked inactive
RemoveAsinFromWatchlist ==
    /\ \E a \in Asins : \E db_ok \in BOOLEAN :
          LET found == Existing(asin_watchlist, a)
              op == "remove_asin_from_watchlist"
          IN IF db_ok /\ found # {}
             THEN /\ asin_watchlist' =
                        [asin_watchlist EXCEPT
                            ![FirstOf(found)].is_active = FALSE]
                  /\ op_result' = OpResult(op, a, "true")
             ELSE /\ op_result' = OpResult(op, a, "false")
                  /\ UNCHANGED asin_watchlist
    /\ UNCHANGED <<poolVars, runVars, single, diffVars, stepVars, sideVars>>

\* _update_watchlist(asin) at the end of a crawl: last_crawled = utcnow(),
\* then next_crawl is computed from the new last_crawled.  A missing row or
\* a failing session leaves the table as it is.
UpdateWatchlist ==
    /\ now < MaxTime
    /\ \E a \in Asins : \E db_ok \in BOOLEAN :
          LET found == Existing(asin_watchlist, a)
              op == "_update_watchlist"
          IN IF db_ok /\ found # {}
             THEN /\ asin_watchlist' =
                        [asin_watchlist EXCEPT
                            ![FirstOf(found)].last_crawled = now,
                            ![FirstOf(found)].next_crawl =
                                CalculateNextCrawl(now, now)]
                  /\ op_result' = OpResult(op, a, "updated")
             ELSE /\ op_result' = OpResult(op, a, "unchanged")
                  /\ UNCHANGED asin_watchlist
    /\ now' = now + 1
    /\ UNCHANGED <<profile_pool, used_ports, runVars, single, diffVars,
                   stepVars, sideVars>>

\* time passes
Tick ==
    /\ now < MaxTime
    /\ now' = now + 1
    /\ UNCHANGED <<profile_pool, used_ports, runVars, single, extVars>>

WatchNext ==
    \/ AddAsinToWatchlist
    \/ AddMultipleAsins
    \/ RemoveAsinFromWatchlist
    \/ UpdateWatchlist
    \/ Tick

\* the watch-list table is empty
WatchIdle ==
    /\ asin_watchlist = <<>>
    /\ op_result = OpResult("none", "none", "none")

\* no detector has run
DetectorIdle ==
    /\ changes = {}
    /\ detect_result = "none"
    /\ dispatched = 0
    /\ compare_calls = 0

DiffIdle ==
    /\ history = NoHistory
    /\ old_data = NoData
    /\ new_data = NoData
    /\ crawl_success = FALSE
    /\ DetectorIdle

NoRun ==
    [total_asins |-> 0, batches_processed |-> 0, successful_crawls |-> 0,
     failed_crawls |-> 0, profiles_used |-> 0, error |-> FALSE]

\* no single-item crawl is running; calls of them have returned or raised
SingleIdle(calls) ==
    [fn |-> "none", pc |-> "idle", port |-> 0, success |-> FALSE, rows |-> 0,
     watch |-> FALSE, notify |-> "none", outcome |-> "none",
     used_ports |-> {}, calls |-> calls]

\* a profile that was just created: AmazonCrawler.__init__ leaves the
\* crawler without a driver and with delivery_location_set = False, and
\* _get_or_create_profile stores delivery_set = False; no task runs on it
SessionIdle ==
    [pc |-> "idle", driver |-> FALSE, delivery_location_set |-> FALSE,
     delivery_set |-> FALSE, steps |-> <<>>, navigated |-> "none",
     setup |-> "none", crawl_success |-> FALSE, crawl_error |-> "none",
     rows |-> 0, result |-> "none", error |-> "none", crawls |-> 0]

\* no task has run on the pooled session and no run has slept
StepIdle ==
    /\ session = SessionIdle
    /\ sleeps = 0

\* get_change_history was not called
HistIdle ==
    /\ crawl_rows = <<>>
    /\ change_history = [called |-> FALSE, entries |-> <<>>]

\* _get_available_port was not called
PortIdle == acquired = [port |-> 0, before |-> {}, calls |-> 0]

\* the coroutines that call into optimized_batch_importer concurrently
MaxProcs == 2

LockProcs == 1 .. MaxProcs

\* an asyncio.Lock nobody holds
Free == 0

\* a coroutine outside the importer; crawler is the created_at of the
\* profile it obtained, closed whether close() was called on that crawler
\* since
ProcIdle ==
    [pc |-> "idle", id |-> 0, port |-> 0, crawler |-> Null, closed |-> FALSE,
     todo |-> {}, after |-> "idle"]

\* no coroutine is inside the importer, both locks are free
LockIdle ==
    /\ procs = [p \in LockProcs |-> ProcIdle]
    /\ profile_lock = Free
    /\ port_lock = Free

\* the worker threads of crawl_batch and the capacity of driver_pool
max_workers == 2

\* the items of one crawl_batch call
MaxAsins == 3

Jobs == 1 .. MaxAsins

\* the drivers one crawler creates at most: the pool's and one more
MaxDrivers == max_workers + 1

NoDriver == 0

\* a task crawl_batch has not submitted
JobIdle == [pc |-> "none", driver |-> NoDriver, result |-> "none"]

\* no OptimizedAmazonCrawler exists
DriverIdle ==
    /\ driver_pool = <<>>
    /\ drivers = [created |-> 0, quit |-> {}]
    /\ jobs = [j \in Jobs |-> JobIdle]

SideIdle ==
    /\ HistIdle
    /\ PortIdle
    /\ LockIdle
    /\ DriverIdle

PoolInit ==
    /\ profile_pool = <<>>
    /\ used_ports = {}
    /\ now = 0

\* no batch run was started
RunIdle ==
    /\ asin_data = [n |-> 0, dicts |-> TRUE]
    /\ batch_size = 0
    /\ run_pc = "idle"
    /\ batch_start = 0
    /\ crawl_results = NoRun
    /\ task = [j \in Items |-> "none"]
    /\ task_success = [j \in Items |-> FALSE]
    /\ result = [j \in Items |-> "none"]
    /\ snapshots = [j \in Items |-> 0]
    /\ watchlist = [j \in Items |-> FALSE]
    /\ run_ports = {}

Init ==
    /\ PoolInit
    /\ RunIdle
    /\ single = SingleIdle(0)
    /\ WatchIdle
    /\ StepIdle
    /\ SideIdle
    /\ DiffIdle

Next ==
    \/ GetOrCreateProfile
    \/ ReleaseProfile
    \/ Cleanup
    \/ GetAvailablePort
    \/ ReleasePort

Spec == Init /\ [][Next]_vars

WatchSpec == Init /\ [][WatchNext]_vars

PortSpec == Init /\ [][PortNext]_vars

\* the detector is given an item's history and two snapshots that differ
\* in at most one monitored field; without an earlier successful row there
\* is no old snapshot
DiffInit ==
    /\ PoolInit
    /\ RunIdle
    /\ single = SingleIdle(0)
    /\ WatchIdle
    /\ StepIdle
    /\ SideIdle
    /\ history \in [Ages -> HistoryStatus]
    /\ \E f \in Fields : \E o \in Values(f) : \E n \in Values(f) :
          /\ old_data = [NoData EXCEPT ![f] = o]
          /\ new_data = [NoData EXCEPT ![f] = n]
    /\ EarlierRowFound(history) \/ old_data = NoData
    /\ crawl_success \in BOOLEAN
    /\ DetectorIdle

DiffNext ==
    \/ CompareDataCall
    \/ DetectAndNotify

DiffSpec == DiffInit /\ [][DiffNext]_vars

-----------------------------------------------------------------------------
(***************************************************************************)
(* ChangeDetector.get_change_history.  crawl_rows is what the query        *)
(* returns: the item's product_crawl_history rows with crawl_date inside   *)
(* the window, ordered by crawl_date descending; the crawl_date of a row   *)
(* is its distance from the oldest row.                                    *)
(***************************************************************************)

MaxRows == 3

\* the sale prices of the rows' snapshots
Prices == {None, Num(10000), Num(12000)}

\* what a row of product_crawl_history holds besides its crawl_date
RowData == [crawl_success : BOOLEAN, sale_price : Prices]

\* the query result for the given rows, newest first: filter_by(asin=asin),
\* the date filter and order_by(crawl_date.desc())
Queried(rows) ==
    [i \in DOMAIN rows |->
        [crawl_date |-> Len(rows) - i,
         crawl_success |-> rows[i].crawl_success,
         data |-> [NoData EXCEPT !["sale_price"] = rows[i].sale_price]]]

RECURSIVE HistoryFrom(_, _)
\* the loop "for i in range(len(crawl_history) - 1)" from index i on: an
\* entry for each pair (rows[i], rows[i + 1]) whose changes are not empty
HistoryFrom(rows, i) ==
    IF i >= Len(rows) THEN <<>>
    ELSE LET ch == CompareData(rows[i + 1].data, rows[i].data)
             rest == HistoryFrom(rows, i + 1)
         IN IF ch # {}
            THEN <<[date |-> rows[i].crawl_date, changes |-> ch]>> \o rest
            ELSE rest

\* get_change_history(asin, days)
GetChangeHistory ==
    /\ ~change_history.called
    /\ change_history' =
           [called |-> TRUE, entries |-> HistoryFrom(crawl_rows, 1)]
    /\ UNCHANGED <<poolVars, mainVars, crawl_rows, acquired, lockVars,
                   driverVars>>

\* the detector is asked for the history of an item with some rows
HistoryInit ==
    /\ PoolInit
    /\ RunIdle
    /\ single = SingleIdle(0)
    /\ WatchIdle
    /\ DiffIdle
    /\ StepIdle
    /\ PortIdle
    /\ LockIdle
    /\ DriverIdle
    /\ \E k \in 0 .. MaxRows : \E rows \in [1 .. k -> RowData] :
          crawl_rows = Queried(rows)
    /\ change_history = [called |-> FALSE, entries |-> <<>>]

HistorySpec == HistoryInit /\ [][GetChangeHistory]_vars

-----------------------------------------------------------------------------
(***************************************************************************)
(* Claims about the pool and the allocator                                 *)
(***************************************************************************)

\* C1: no two profiles resident in profile_pool at the same instant are
\* bound to the same port, after any interleaving of the pool and allocator
\* operations, also after the allocator has reset its held-set.
PortsUnique ==
    \A a \in Residents(profile_pool) : \A b \in Residents(profile_pool) :
        a # b => profile_pool[a].port # profile_pool[b].port

\* C2: the number of resident profiles never exceeds max_profiles.
PoolBounded == Cardinality(Residents(profile_pool)) <= max_profiles

\* the pool is at capacity after more profiles were created than it holds
PoolBoundedWitness ==
    /\ Cardinality(Residents(profile_pool)) = max_profiles
    /\ now > max_profiles

\* a step of _get_or_create_profile that evicted x and created a profile
EvictionStep(x) ==
    /\ x \in Residents(profile_pool)
    /\ x \notin Residents(profile_pool')
    /\ now' = now + 1

\* C3: at capacity, the evicted resident is the one with the earliest
\* creation time among all residents, for every order of the requested ids,
\* and the new profile is created with delivery_set = false.
EvictsOldestCreated ==
    [][\A x \in ProfileIds :
          EvictionStep(x) =>
            /\ \A y \in Residents(profile_pool) :
                  profile_pool[x].created_at <= profile_pool[y].created_at
            /\ \A z \in Residents(profile_pool') \ Residents(profile_pool) :
                  ~profile_pool'[z].delivery_set]_vars

-----------------------------------------------------------------------------
(***************************************************************************)
(* The batch run: _crawl_asins_optimized, _crawl_batch_with_profile_reuse  *)
(* and the crawl task _crawl_single_asin_concurrent of each item.          *)
(*                                                                         *)
(* asin_data.dicts tells the shape of the work list: a list of             *)
(* {"asin", "category"} dictionaries (import_from_file, import_from_list)  *)
(* or a list of ASIN strings (daily_crawl_job, the scheduler test).        *)
(***************************************************************************)

Min(a, b) == IF a <= b THEN a ELSE b

\* batch = asin_data[i:i + batch_size], as item positions 1..n
BatchItems ==
    {j \in 1 .. asin_data.n : batch_start < j /\ j <= batch_start + batch_size}

\* profile_id = i % self.max_profiles, i the position inside the batch
ProfileIdOf(j) == (j - 1 - batch_start) % max_profiles

\* faulty variant of AllTasksDone: the tasks are started and not awaited
GatherNoWait(batch) == TRUE

\* asyncio.gather returns when every task of the batch has finished
AllTasksDone(batch) == \A j \in batch : task[j] = "done"

\* the counting loop over the gathered results
CountResults(batch, kinds) == Cardinality({j \in batch : result[j] \in kinds})

\* batch_result of a batch whose tasks were gathered
BatchResult(batch) ==
    [successful |-> CountResults(batch, {"ok"}),
     failed |-> CountResults(batch, {"fail", "raised"}),
     profiles_used |-> Min(Cardinality(batch), max_profiles)]

\* batch_result of a batch whose task list could not be built: indexing an
\* ASIN string with "asin" raises TypeError before any task exists, and the
\* handler of _crawl_batch_with_profile_reuse returns the initial counters
BatchResultOnError == [successful |-> 0, failed |-> 0, profiles_used |-> 0]

\* faulty variant of Aggregate: profiles_used is summed over the batches
AggregateSummed(cr, br) ==
    [cr EXCEPT !.batches_processed = @ + 1,
               !.successful_crawls = @ + br.successful,
               !.failed_crawls = @ + br.failed,
               !.profiles_used = @ + br.profiles_used]

\* the aggregation of one batch_result into crawl_results
Aggregate(cr, br) ==
    [cr EXCEPT !.batches_processed = @ + 1,
               !.successful_crawls = @ + br.successful,
               !.failed_crawls = @ + br.failed,
               !.profiles_used = br.profiles_used]

\* faulty variant of MoreBatches: the bound is included, so a run whose last
\* batch is a full one sleeps after it
MoreBatchesInclusive == batch_start + batch_size <= asin_data.n

\* if i + batch_size < len(asin_data): another batch follows
MoreBatches == batch_start + batch_size < asin_data.n

\* faulty variant of LoopDone: the loop also stops once a crawl has failed
LoopDoneOnFailure(cr) == batch_start >= asin_data.n \/ cr.failed_crawls > 0

\* the for loop over range(0, len(asin_data), batch_size) is exhausted
LoopDone(cr) == batch_start >= asin_data.n

\* what the run does once a batch_result is aggregated
AfterBatch(br) ==
    /\ crawl_results' = Aggregate(crawl_results, br)
    /\ IF MoreBatches
       THEN run_pc' = "sleep" /\ batch_start' = batch_start
       ELSE run_pc' = "loop" /\ batch_start' = batch_start + batch_size

\* faulty variant of OnRunError: no handler, the exception leaves the run
OnRunErrorUnhandled == "raised"

\* where an exception raised inside the try block of _crawl_asins_optimized
\* leaves the run: its handler returns crawl_results
OnRunError == "returned"

\* range(0, len(asin_data), 0) raises ValueError inside the try block: the
\* handler records the error, cleans the pool up and returns the statistics
RangeError ==
    /\ run_pc = "loop"
    /\ batch_size = 0
    /\ crawl_results' = [crawl_results EXCEPT !.error = TRUE]
    /\ CleanupPool
    /\ run_pc' = OnRunError
    /\ UNCHANGED <<asin_data, batch_size, batch_start, task, task_success,
                   result, snapshots, watchlist, run_ports, single, extVars>>

\* the task list of the next batch is built and handed to asyncio.gather
LaunchBatch ==
    /\ run_pc = "loop"
    /\ batch_size > 0
    /\ ~LoopDone(crawl_results)
    /\ asin_data.dicts
    /\ task' = [j \in Items |-> IF j \in BatchItems THEN "created" ELSE task[j]]
    /\ run_pc' = "gather"
    /\ UNCHANGED <<poolVars, asin_data, batch_size, batch_start, crawl_results,
                   task_success, result, snapshots, watchlist, run_ports,
                   single, extVars>>

\* a batch of ASIN strings: no task is built, the batch counts nothing
BatchTypeError ==
    /\ run_pc = "loop"
    /\ batch_size > 0
    /\ ~LoopDone(crawl_results)
    /\ ~asin_data.dicts
    /\ AfterBatch(BatchResultOnError)
    /\ UNCHANGED <<poolVars, asin_data, batch_size, task, task_success, result,
                   snapshots, watchlist, run_ports, single, extVars>>

\* gather returned: the results are counted and aggregated
GatherDone ==
    /\ run_pc = "gather"
    /\ AllTasksDone(BatchItems)
    /\ AfterBatch(BatchResult(BatchItems))
    /\ UNCHANGED <<poolVars, asin_data, batch_size, task, task_success, result,
                   snapshots, watchlist, run_ports, single, extVars>>

\* await asyncio.sleep(delay_seconds) between two batches
Sleep ==
    /\ run_pc = "sleep"
    /\ run_pc' = "loop"
    /\ batch_start' = batch_start + batch_size
    /\ sleeps' = sleeps + 1
    /\ UNCHANGED <<poolVars, asin_data, batch_size, crawl_results, task,
                   task_success, result, snapshots, watchlist, run_ports,
                   single, watchVars, diffVars, session, sideVars>>

\* the loop is over: cleanup() and return crawl_results
FinishRun ==
    /\ run_pc = "loop"
    /\ batch_size > 0
    /\ LoopDone(crawl_results)
    /\ CleanupPool
    /\ run_pc' = "returned"
    /\ UNCHANGED <<asin_data, batch_size, batch_start, crawl_results, task,
                   task_success, result, snapshots, watchlist, run_ports,
                   single, extVars>>

-----------------------------------------------------------------------------
(***************************************************************************)
(* The crawl task of item j.  task[j] is its position:                     *)
(*   "created"  handed to gather, not started                              *)
(*   "crawl"    crawler.crawl_product runs in a worker thread              *)
(*   "save"     crawler.save_to_database runs in a worker thread           *)
(*   "watch"    _update_watchlist runs in a worker thread                  *)
(*   "done"     the task returned; result[j] is what gather received       *)
(***************************************************************************)

\* what gather receives when a step of the task raises: the handlers of
\* _crawl_single_asin_with_profile and _crawl_single_asin_concurrent turn
\* every Exception into a result with success = False
ResultOnException == "fail"

\* the result built from product_data.get('crawl_success', False)
ResultOf(success) == IF success THEN "ok" ELSE "fail"

TaskEnds(j, r) ==
    /\ task' = [task EXCEPT ![j] = "done"]
    /\ result' = [result EXCEPT ![j] = r]
    /\ task_success' = [task_success EXCEPT ![j] = FALSE]

\* profile = await self._get_or_create_profile(profile_id), then the crawl
\* is handed to a worker thread; a failing AmazonCrawler() ends the task
TaskGetProfile(j) ==
    /\ run_pc = "gather"
    /\ task[j] = "created"
    /\ \/ /\ ReuseProfile(ProfileIdOf(j))
          /\ task' = [task EXCEPT ![j] = "crawl"]
          /\ UNCHANGED <<task_success, result, run_ports>>
       \/ /\ CreateProfile(ProfileIdOf(j), TRUE)
          /\ task' = [task EXCEPT ![j] = "crawl"]
          /\ run_ports' = run_ports \cup {profile_pool'[ProfileIdOf(j)].port}
          /\ UNCHANGED <<task_success, result>>
       \/ /\ CreateProfile(ProfileIdOf(j), FALSE)
          /\ TaskEnds(j, ResultOnException)
          /\ UNCHANGED run_ports
    /\ UNCHANGED <<asin_data, batch_size, run_pc, batch_start, crawl_results,
                   snapshots, watchlist, single, extVars>>

\* crawl_product returned or raised.  _setup_driver runs, outside the try
\* block of crawl_product, when the crawler has no driver yet, and raises
\* when no ChromeDriver can be started; a navigation or extraction error is
\* caught inside crawl_product and gives crawl_success = False.  On return
\* the task sets delivery_set and hands save_to_database to a thread.
TaskCrawl(j) ==
    /\ task[j] = "crawl"
    /\ ProfileIdOf(j) \in Residents(profile_pool)
    /\ LET id == ProfileIdOf(j)
           prof == profile_pool[id]
       IN \/ /\ ~prof.driver
             /\ TaskEnds(j, ResultOnException)
             /\ UNCHANGED profile_pool
          \/ \E ok \in BOOLEAN :
                /\ profile_pool' =
                      [profile_pool EXCEPT
                          ![id].driver = TRUE,
                          ![id].delivery_set = prof.delivery_set \/ ok]
                /\ task' = [task EXCEPT ![j] = "save"]
                /\ task_success' = [task_success EXCEPT ![j] = ok]
                /\ UNCHANGED result
    /\ UNCHANGED <<used_ports, now, asin_data, batch_size, run_pc,
                   batch_start, crawl_results, snapshots, watchlist,
                   run_ports, single, extVars>>

\* rows added by save_to_database: one when the insert commits, none when
\* it is rejected (the handler rolls back and swallows the error)
RowsWritten(inserted) == IF inserted THEN 1 ELSE 0

\* save_to_database returned; _update_watchlist is handed to a thread
TaskSave(j) ==
    /\ task[j] = "save"
    /\ \E inserted \in BOOLEAN :
          snapshots' = [snapshots EXCEPT ![j] = @ + RowsWritten(inserted)]
    /\ task' = [task EXCEPT ![j] = "watch"]
    /\ UNCHANGED <<poolVars, asin_data, batch_size, run_pc, batch_start,
                   crawl_results, task_success, result, watchlist, run_ports,
                   single, extVars>>

\* _update_watchlist returned (it swallows its own errors); the task
\* returns its result
TaskWatch(j) ==
    /\ task[j] = "watch"
    /\ \E updated \in BOOLEAN :
          watchlist' = [watchlist EXCEPT ![j] = @ \/ updated]
    /\ TaskEnds(j, ResultOf(task_success[j]))
    /\ UNCHANGED <<poolVars, asin_data, batch_size, run_pc, batch_start,
                   crawl_results, snapshots, run_ports, single, extVars>>

RunInit ==
    /\ PoolInit
    /\ asin_data \in [n : 1 .. MaxItems, dicts : BOOLEAN]
    /\ batch_size \in 0 .. MaxBatch
    /\ run_pc = "loop"
    /\ batch_start = 0
    /\ crawl_results = [NoRun EXCEPT !.total_asins = asin_data.n]
    /\ task = [j \in Items |-> "none"]
    /\ task_success = [j \in Items |-> FALSE]
    /\ result = [j \in Items |-> "none"]
    /\ snapshots = [j \in Items |-> 0]
    /\ watchlist = [j \in Items |-> FALSE]
    /\ run_ports = {}
    /\ single = SingleIdle(0)
    /\ WatchIdle
    /\ StepIdle
    /\ SideIdle
    /\ DiffIdle

RunNext ==
    \/ RangeError
    \/ LaunchBatch
    \/ BatchTypeError
    \/ GatherDone
    \/ Sleep
    \/ FinishRun
    \/ \E j \in Items : TaskGetProfile(j)
    \/ \E j \in Items : TaskCrawl(j)
    \/ \E j \in Items : TaskSave(j)
    \/ \E j \in Items : TaskWatch(j)

RunSpec == RunInit /\ [][RunNext]_vars

\* the event loop and the worker threads keep running what is runnable
FairRunSpec == RunSpec /\ WF_vars(RunNext)

\* the runs whose work list is one item longer than the pool: with
\* batch_size = len(asin_data) the ids i % max_profiles repeat in the
\* batch, with batch_size = max_profiles the last batch is a short one
WideRunInit ==
    /\ PoolInit
    /\ asin_data \in [n : {WideLen}, dicts : BOOLEAN]
    /\ batch_size \in 0 .. WideLen
    /\ run_pc = "loop"
    /\ batch_start = 0
    /\ crawl_results = [NoRun EXCEPT !.total_asins = asin_data.n]
    /\ task = [j \in Items |-> "none"]
    /\ task_success = [j \in Items |-> FALSE]
    /\ result = [j \in Items |-> "none"]
    /\ snapshots = [j \in Items |-> 0]
    /\ watchlist = [j \in Items |-> FALSE]
    /\ run_ports = {}
    /\ single = SingleIdle(0)
    /\ WatchIdle
    /\ StepIdle
    /\ SideIdle
    /\ DiffIdle

WideRunSpec == WideRunInit /\ [][RunNext]_vars

\* what a cancelled task leaves: asyncio.CancelledError derives from
\* BaseException, so the handlers "except Exception" of the task do not
\* see it and the task ends cancelled
ResultOnCancel == "cancelled"

\* where a cancellation leaves _crawl_asins_optimized: its only handler is
\* "except Exception", and the cleanup() calls stand in the try body and in
\* that handler, so the CancelledError leaves the run past both
OnCancel == "cancelled"

\* the run is cancelled while it awaits gather or the sleep between two
\* batches: gather cancels the tasks that have not finished
CancelRun ==
    /\ run_pc \in {"gather", "sleep"}
    /\ task' = [j \in Items |->
                   IF task[j] \in {"none", "done"} THEN task[j] ELSE "done"]
    /\ result' = [j \in Items |->
                     IF task[j] \in {"none", "done"} THEN result[j]
                     ELSE ResultOnCancel]
    /\ task_success' = [j \in Items |-> FALSE]
    /\ run_pc' = OnCancel
    /\ UNCHANGED <<poolVars, asin_data, batch_size, batch_start, crawl_results,
                   snapshots, watchlist, run_ports, single, extVars>>

CancelRunNext ==
    \/ RunNext
    \/ CancelRun

CancelRunSpec == RunInit /\ [][CancelRunNext]_vars

-----------------------------------------------------------------------------
(***************************************************************************)
(* The scheduler's single-item entry points: CrawlerScheduler              *)
(* .crawl_single_asin (manual crawl) and ._crawl_single_asin_async (one    *)
(* browser per item, with a port of the scheduler's own allocator).        *)
(* single.outcome is how the call ended: "ok" / "fail" for a returned      *)
(* result with that success flag, "raised" for an exception that left the  *)
(* call.                                                                   *)
(***************************************************************************)

Manual == "crawl_single_asin"

Async == "_crawl_single_asin_async"

\* the call ends: crawler.close() in the finally block, and for the async
\* variant the port goes back to the scheduler's allocator
Ended(out) ==
    [single EXCEPT !.pc = "done",
                   !.outcome = out,
                   !.used_ports = UsedAfterRelease(@, single.port)]

SingleEnds(out) == single' = Ended(out)

\* how crawl_single_asin ends when AmazonCrawler() raises: the constructor
\* call stands before the try block, so no handler sees the exception
ManualCtorFailure == "raised"

\* how _crawl_single_asin_async ends when AmazonCrawler() raises: the
\* constructor call stands inside the try block
AsyncCtorFailure == "fail"

\* crawl_single_asin(asin) is called: crawler = AmazonCrawler()
ManualStart ==
    /\ single.pc \in {"idle", "done"}
    /\ single.calls < MaxCalls
    /\ \E ctor_ok \in BOOLEAN :
          IF ctor_ok
          THEN single' = [SingleIdle(single.calls + 1) EXCEPT
                             !.fn = Manual, !.pc = "crawl"]
          ELSE single' = [SingleIdle(single.calls + 1) EXCEPT
                             !.fn = Manual, !.pc = "done",
                             !.outcome = ManualCtorFailure]
    /\ UNCHANGED <<poolVars, runVars, extVars>>

\* _crawl_single_asin_async(asin) is called: a port is acquired, then
\* crawler = AmazonCrawler()
AsyncStart ==
    /\ single.pc \in {"idle", "done"}
    /\ single.calls < MaxCalls
    /\ \E p \in PortChoices(single.used_ports) : \E ctor_ok \in BOOLEAN :
          LET started == [SingleIdle(single.calls + 1) EXCEPT
                             !.fn = Async, !.port = p,
                             !.used_ports =
                                 UsedAfterAcquire(single.used_ports, p)]
          IN IF ctor_ok
             THEN single' = [started EXCEPT !.pc = "crawl"]
             ELSE single' = [started EXCEPT
                                !.pc = "done",
                                !.outcome = AsyncCtorFailure,
                                !.used_ports = UsedAfterRelease(@, p)]
    /\ UNCHANGED <<poolVars, runVars, extVars>>

\* crawl_product raised in _setup_driver, or returned product_data
SingleCrawl ==
    /\ single.pc = "crawl"
    /\ \/ SingleEnds(ResultOnException)
       \/ \E ok \in BOOLEAN :
             single' = [single EXCEPT !.pc = "save", !.success = ok]
    /\ UNCHANGED <<poolVars, runVars, extVars>>

\* save_to_database returned; the manual crawl goes on to detect_changes,
\* the async one to _update_watchlist
SingleSave ==
    /\ single.pc = "save"
    /\ \E inserted \in BOOLEAN :
          single' = [single EXCEPT
                        !.rows = @ + RowsWritten(inserted),
                        !.pc = IF single.fn = Manual THEN "detect" ELSE "watch"]
    /\ UNCHANGED <<poolVars, runVars, extVars>>

\* how send_notification ended inside detect_changes: it was not invoked,
\* the message was delivered, the failure was swallowed inside the
\* notification service, or it raised
NotifyOutcomes == {"none", "sent", "swallowed", "raised"}

\* the call after detect_changes returned a change result: the manual
\* crawl goes on to its watch entry, the async crawl returns its result
AfterDetect(n) ==
    [(IF single.fn = Manual THEN [single EXCEPT !.pc = "watch"]
      ELSE Ended(ResultOf(single.success))) EXCEPT !.notify = n]

\* the call after an exception left detect_changes: the handler of the
\* crawl returns a failed result
AfterDetectRaised(n) == [Ended(ResultOnException) EXCEPT !.notify = n]

\* detect_changes returned or raised.  ChangeDetector() raising (it opens
\* a database session of its own) leaves detect_changes; what a failing
\* send_notification does is decided by detect_and_notify_changes.
SingleDetect ==
    /\ single.pc = "detect"
    /\ \/ SingleEnds(ResultOnException)
       \/ \E n \in NotifyOutcomes :
             single' = IF n = "raised" /\ OnDispatchFailure = "raised"
                       THEN AfterDetectRaised(n)
                       ELSE AfterDetect(n)
    /\ UNCHANGED <<poolVars, runVars, extVars>>

\* the watch entry is advanced.  The manual crawl queries and commits on
\* the scheduler's session inside its try block, so an error there gives a
\* failed result; _update_watchlist of the async crawl swallows its errors.
SingleWatch ==
    /\ single.pc = "watch"
    /\ \E updated \in BOOLEAN :
          IF single.fn = Manual
          THEN IF updated
               THEN single' = [Ended(ResultOf(single.success)) EXCEPT
                                  !.watch = TRUE]
               ELSE \/ SingleEnds(ResultOf(single.success))
                    \/ SingleEnds(ResultOnException)
          ELSE single' = [single EXCEPT !.pc = "detect", !.watch = updated]
    /\ UNCHANGED <<poolVars, runVars, extVars>>

SingleNext ==
    \/ ManualStart
    \/ AsyncStart
    \/ SingleCrawl
    \/ SingleSave
    \/ SingleDetect
    \/ SingleWatch

SingleSpec == Init /\ [][SingleNext]_vars

-----------------------------------------------------------------------------
(***************************************************************************)
(* The steps of the crawl tasks that run, one after the other, on one      *)
(* pooled session: _crawl_single_asin_with_profile and, inside it,         *)
(* AmazonCrawler.crawl_product.  session.steps lists the steps the running *)
(* task has attempted; session.delivery_location_set is the crawler's      *)
(* flag, session.delivery_set the flag of the profile dictionary.          *)
(***************************************************************************)

MaxCrawls == 2

\* a task on the session has returned its result
SessionEnds(r, e) == [session EXCEPT !.pc = "done", !.result = r, !.error = e]

\* crawl_product returned product_data to the task: the task sets
\* profile['delivery_set'] when crawl_success holds and goes on to
\* save_to_database
CrawlReturns(ss) ==
    [ss EXCEPT !.pc = "persist",
               !.delivery_set = ss.delivery_set \/ ss.crawl_success]

\* the task is called with the profile.  crawl_product sets a driver up
\* when the crawler has none and resets delivery_location_set; a raising
\* _setup_driver leaves crawl_product and the handler of the task returns
\* a failed result
SessionStart ==
    /\ session.pc \in {"idle", "done"}
    /\ session.crawls < MaxCrawls
    /\ LET started == [session EXCEPT
                          !.steps = <<>>, !.navigated = "none",
                          !.setup = "none", !.crawl_success = FALSE,
                          !.crawl_error = "none", !.rows = 0,
                          !.result = "none", !.error = "none",
                          !.crawls = @ + 1]
       IN IF session.driver
          THEN session' = [started EXCEPT !.pc = "navigate"]
          ELSE \E driver_ok \in BOOLEAN :
                  session' =
                      IF driver_ok
                      THEN [started EXCEPT !.pc = "navigate",
                                           !.driver = TRUE,
                                           !.delivery_location_set = FALSE]
                      ELSE [started EXCEPT !.pc = "done",
                                           !.result = ResultOnException,
                                           !.error = "exception"]
    /\ UNCHANGED <<poolVars, runVars, single, watchVars, diffVars, sleeps,
                   sideVars>>

\* faulty variant of AfterNavigate: a failed page load is not noticed
AfterNavigateUnchecked(ok, location_set) ==
    IF location_set THEN "extract" ELSE "setup"

\* where crawl_product goes after driver.get and the title check: an
\* exception there jumps to the handler at the end of crawl_product
AfterNavigate(ok, location_set) ==
    IF ~ok THEN "return"
    ELSE IF location_set THEN "extract" ELSE "setup"

\* driver.get(url), the title check and _handle_continue_shopping
SessionNavigate ==
    /\ session.pc = "navigate"
    /\ \E ok \in BOOLEAN :
          LET to == AfterNavigate(ok, session.delivery_location_set)
              loaded == [session EXCEPT
                            !.steps = Append(@, "NAVIGATE"),
                            !.navigated = IF ok THEN "ok" ELSE "failed"]
          IN session' =
                 IF to = "return"
                 THEN CrawlReturns([loaded EXCEPT !.crawl_error = "navigate"])
                 ELSE [loaded EXCEPT !.pc = to]
    /\ UNCHANGED <<poolVars, runVars, single, watchVars, diffVars, sleeps,
                   sideVars>>

\* how the delivery-location block can end: the location was already New
\* York, _set_delivery_location returned True or False, or the block
\* raised and the exception was swallowed
SetupOutcomes == {"already", "changed", "failed", "raised"}

\* the block "if not self.delivery_location_set": the flag is set when the
\* location is already right or _set_delivery_location returned True
SessionSetup ==
    /\ session.pc = "setup"
    /\ \E outcome \in SetupOutcomes :
          session' = [session EXCEPT
                         !.steps = Append(@, "SETUP"),
                         !.setup = outcome,
                         !.delivery_location_set =
                             outcome \in {"already", "changed"},
                         !.pc = "extract"]
    /\ UNCHANGED <<poolVars, runVars, single, watchVars, diffVars, sleeps,
                   sideVars>>

\* the _extract_* calls and _format_final_output; an exception gives
\* crawl_error and leaves crawl_success False
SessionExtract ==
    /\ session.pc = "extract"
    /\ \E ok \in BOOLEAN :
          session' = CrawlReturns(
                         [session EXCEPT
                             !.steps = Append(@, "EXTRACT"),
                             !.crawl_success = ok,
                             !.crawl_error = IF ok THEN "none" ELSE "extract"])
    /\ UNCHANGED <<poolVars, runVars, single, watchVars, diffVars, sleeps,
                   sideVars>>

\* crawler.save_to_database(product_data)
SessionPersist ==
    /\ session.pc = "persist"
    /\ \E inserted \in BOOLEAN :
          session' = [session EXCEPT
                         !.steps = Append(@, "PERSIST"),
                         !.rows = @ + RowsWritten(inserted),
                         !.pc = "watch"]
    /\ UNCHANGED <<poolVars, runVars, single, watchVars, diffVars, sleeps,
                   sideVars>>

\* _update_watchlist(asin), then the task returns its result
SessionWatch ==
    /\ session.pc = "watch"
    /\ session' = SessionEnds(ResultOf(session.crawl_success),
                              session.crawl_error)
    /\ UNCHANGED <<poolVars, runVars, single, watchVars, diffVars, sleeps,
                   sideVars>>

SessionNext ==
    \/ SessionStart
    \/ SessionNavigate
    \/ SessionSetup
    \/ SessionExtract
    \/ SessionPersist
    \/ SessionWatch

SessionSpec == Init /\ [][SessionNext]_vars

-----------------------------------------------------------------------------
(***************************************************************************)
(* The pool operations step by step, called by several coroutines on the   *)
(* shared optimized_batch_importer: a crawl task                           *)
(* (_crawl_single_asin_concurrent), _release_profile and cleanup.  Every   *)
(* "async with" is a point where the coroutine may have to wait, every     *)
(* asyncio.to_thread a point where it is suspended while a worker thread   *)
(* runs.  A profile's crawler is identified by the profile's created_at.   *)
(***************************************************************************)

\* the pool operations leave the runs' bookkeeping alone
LockFrame == UNCHANGED <<mainVars, histVars, acquired, driverVars>>

Goto(p, pc) == [procs EXCEPT ![p].pc = pc]

\* the coroutine's call has returned
Return(p) == [procs EXCEPT ![p] = [ProcIdle EXCEPT !.pc = "done"]]

\* crawler.close() on the crawler created at time c: every coroutine that
\* holds that crawler now holds a closed one
Close(ps, c) ==
    [q \in LockProcs |->
        IF ps[q].crawler = c THEN [ps[q] EXCEPT !.closed = TRUE] ELSE ps[q]]

\* faulty variant of LockOnReturn: the lock is kept when the resident is
\* returned
LockKeptOnReturn(p) == p

\* "return profile" inside "async with self.profile_lock" releases the lock
LockOnReturn(p) == Free

\* faulty variant of LockOnRaise: the lock is kept when AmazonCrawler()
\* raises
LockKeptOnRaise(p) == p

\* an exception leaving "async with self.profile_lock" releases the lock
LockOnRaise(p) == Free

\* a coroutine starts its call: a crawl task for a profile id,
\* _release_profile(id) or cleanup()
Call(p) ==
    /\ procs[p].pc = "idle"
    /\ \E entry \in {"get_lock", "release_lock", "cleanup_lock"} :
       \E id \in ProfileIds :
          procs' = [procs EXCEPT ![p] =
                       [ProcIdle EXCEPT !.pc = entry, !.id = id]]
    /\ UNCHANGED <<poolVars, profile_lock, port_lock>>
    /\ LockFrame

\* async with self.profile_lock, in any of the three operations
TakeProfileLock(p) ==
    /\ procs[p].pc \in {"get_lock", "release_lock", "cleanup_lock"}
    /\ profile_lock = Free
    /\ profile_lock' = p
    /\ procs' = Goto(p, CASE procs[p].pc = "get_lock" -> "get_test"
                          [] procs[p].pc = "release_lock" -> "release_test"
                          [] OTHER -> "cleanup_start")
    /\ UNCHANGED <<poolVars, port_lock>>
    /\ LockFrame

\* _get_or_create_profile under the lock: the resident is returned, or the
\* oldest profile is popped and closed, or the pool has room
GetTest(p) ==
    /\ procs[p].pc = "get_test"
    /\ LET id == procs[p].id
       IN IF id \in Residents(profile_pool)
          THEN /\ procs' = [procs EXCEPT
                               ![p].pc = "crawl",
                               ![p].port = profile_pool[id].port,
                               ![p].crawler = profile_pool[id].created_at]
               /\ profile_lock' = LockOnReturn(p)
               /\ UNCHANGED poolVars
          ELSE IF PoolFull(profile_pool)
          THEN LET old == OldestProfileId(profile_pool)
               IN /\ profile_pool' = PoolWithout(profile_pool, old)
                  /\ procs' = [Close(procs, profile_pool[old].created_at)
                                  EXCEPT
                                  ![p].pc = "port_lock",
                                  ![p].port = profile_pool[old].port,
                                  ![p].after = "acquire_lock"]
                  /\ UNCHANGED <<used_ports, now, profile_lock>>
          ELSE /\ procs' = Goto(p, "acquire_lock")
               /\ UNCHANGED <<poolVars, profile_lock>>
    /\ UNCHANGED port_lock
    /\ LockFrame

\* async with self.port_lock, in _release_port and _get_available_port
TakePortLock(p) ==
    /\ procs[p].pc \in {"port_lock", "acquire_lock"}
    /\ port_lock = Free
    /\ port_lock' = p
    /\ procs' = Goto(p, IF procs[p].pc = "port_lock" THEN "port_release"
                                                      ELSE "acquire")
    /\ UNCHANGED <<poolVars, profile_lock>>
    /\ LockFrame

\* _release_port(port) under port_lock, then back in the caller
PortRelease(p) ==
    /\ procs[p].pc = "port_release"
    /\ used_ports' = UsedAfterRelease(used_ports, procs[p].port)
    /\ port_lock' = Free
    /\ procs' = Goto(p, procs[p].after)
    /\ UNCHANGED <<profile_pool, now, profile_lock>>
    /\ LockFrame

\* _get_available_port() under port_lock
PortAcquire(p) ==
    /\ procs[p].pc = "acquire"
    /\ \E port \in PortChoices(used_ports) :
          /\ used_ports' = UsedAfterAcquire(used_ports, port)
          /\ procs' = [procs EXCEPT ![p].pc = "ctor", ![p].port = port]
    /\ port_lock' = Free
    /\ UNCHANGED <<profile_pool, now, profile_lock>>
    /\ LockFrame

\* crawler = AmazonCrawler(): the profile is stored and returned, or the
\* constructor raises and the task ends in its except branch
Construct(p) ==
    /\ procs[p].pc = "ctor"
    /\ \E ctor_ok \in (IF now < MaxClock THEN BOOLEAN ELSE {FALSE}) :
          IF ctor_ok
          THEN /\ profile_pool' = PoolWith(profile_pool, procs[p].id,
                                           NewProfile(procs[p].port, now))
               /\ now' = now + 1
               /\ procs' = [procs EXCEPT ![p].pc = "crawl",
                                         ![p].crawler = now]
               /\ profile_lock' = LockOnReturn(p)
          ELSE /\ procs' = Return(p)
               /\ profile_lock' = LockOnRaise(p)
               /\ UNCHANGED <<profile_pool, now>>
    /\ UNCHANGED <<used_ports, port_lock>>
    /\ LockFrame

\* await asyncio.to_thread(crawler.crawl_product, asin, port) returned:
\* profile['delivery_set'] = True after a successful crawl; the dict is the
\* pool's entry as long as the profile is resident
CrawlReturned(p) ==
    /\ procs[p].pc = "crawl"
    /\ \E crawl_ok \in BOOLEAN :
          LET id == procs[p].id
          IN IF /\ crawl_ok
                /\ id \in Residents(profile_pool)
                /\ profile_pool[id].created_at = procs[p].crawler
             THEN profile_pool' =
                      [profile_pool EXCEPT ![id].delivery_set = TRUE]
             ELSE UNCHANGED profile_pool
    /\ procs' = Goto(p, "save")
    /\ UNCHANGED <<used_ports, now, profile_lock, port_lock>>
    /\ LockFrame

\* await asyncio.to_thread(crawler.save_to_database, product_data) and
\* await asyncio.to_thread(self._update_watchlist, asin) returned
SaveReturned(p) ==
    /\ procs[p].pc = "save"
    /\ procs' = Return(p)
    /\ UNCHANGED <<poolVars, profile_lock, port_lock>>
    /\ LockFrame

\* _release_profile under the lock: a resident is popped and closed
ReleaseTest(p) ==
    /\ procs[p].pc = "release_test"
    /\ LET id == procs[p].id
       IN IF id \in Residents(profile_pool)
          THEN /\ profile_pool' = PoolWithout(profile_pool, id)
               /\ procs' = [Close(procs, profile_pool[id].created_at)
                               EXCEPT ![p].pc = "port_lock",
                                      ![p].port = profile_pool[id].port,
                                      ![p].after = "exit"]
               /\ UNCHANGED <<used_ports, now, profile_lock>>
          ELSE /\ procs' = Return(p)
               /\ profile_lock' = Free
               /\ UNCHANGED poolVars
    /\ UNCHANGED port_lock
    /\ LockFrame

\* the end of "async with self.profile_lock" in _release_profile
ReleaseExit(p) ==
    /\ procs[p].pc = "exit"
    /\ profile_lock' = Free
    /\ procs' = Return(p)
    /\ UNCHANGED <<poolVars, port_lock>>
    /\ LockFrame

\* cleanup under the lock: list(self.profile_pool.items())
CleanupStart(p) ==
    /\ procs[p].pc = "cleanup_start"
    /\ procs' = [procs EXCEPT ![p].pc = "cleanup_loop",
                              ![p].todo = Residents(profile_pool)]
    /\ UNCHANGED <<poolVars, profile_lock, port_lock>>
    /\ LockFrame

\* the next profile of the list, in the dict's insertion order
NextToClose(todo) ==
    CHOOSE x \in todo :
        \A y \in todo : profile_pool[x].created_at <= profile_pool[y].created_at

\* one round of cleanup's loop: the crawler is closed and its port is
\* released; after the last round the pool is cleared and the lock released
CleanupLoop(p) ==
    /\ procs[p].pc = "cleanup_loop"
    /\ IF procs[p].todo # {}
       THEN LET x == NextToClose(procs[p].todo)
            IN /\ procs' = [Close(procs, profile_pool[x].created_at)
                               EXCEPT ![p].pc = "port_lock",
                                      ![p].port = profile_pool[x].port,
                                      ![p].todo = procs[p].todo \ {x},
                                      ![p].after = "cleanup_loop"]
               /\ UNCHANGED <<poolVars, profile_lock>>
       ELSE /\ profile_pool' = <<>>
            /\ profile_lock' = Free
            /\ procs' = Return(p)
            /\ UNCHANGED <<used_ports, now>>
    /\ UNCHANGED port_lock
    /\ LockFrame

\* the steps of a coroutine that is inside an operation
ProcStep(p) ==
    \/ TakeProfileLock(p)
    \/ GetTest(p)
    \/ TakePortLock(p)
    \/ PortRelease(p)
    \/ PortAcquire(p)
    \/ Construct(p)
    \/ CrawlReturned(p)
    \/ SaveReturned(p)
    \/ ReleaseTest(p)
    \/ ReleaseExit(p)
    \/ CleanupStart(p)
    \/ CleanupLoop(p)

LockNext ==
    \/ \E p \in LockProcs : Call(p)
    \/ \E p \in LockProcs : TakeProfileLock(p)
    \/ \E p \in LockProcs : GetTest(p)
    \/ \E p \in LockProcs : TakePortLock(p)
    \/ \E p \in LockProcs : PortRelease(p)
    \/ \E p \in LockProcs : PortAcquire(p)
    \/ \E p \in LockProcs : Construct(p)
    \/ \E p \in LockProcs : CrawlReturned(p)
    \/ \E p \in LockProcs : SaveReturned(p)
    \/ \E p \in LockProcs : ReleaseTest(p)
    \/ \E p \in LockProcs : ReleaseExit(p)
    \/ \E p \in LockProcs : CleanupStart(p)
    \/ \E p \in LockProcs : CleanupLoop(p)

\* max_profiles profiles created one after the other, none evicted
FullPool ==
    [id \in 0 .. (max_profiles - 1) |-> NewProfile(FirstPort + id, id)]

\* the coroutines start on the empty pool or on a full one
LockInit ==
    /\ \/ PoolInit
       \/ /\ profile_pool = FullPool
          /\ used_ports = BoundPorts(FullPool)
          /\ now = max_profiles
    /\ RunIdle
    /\ single = SingleIdle(0)
    /\ WatchIdle
    /\ StepIdle
    /\ SideIdle
    /\ DiffIdle

LockSpec == LockInit /\ [][LockNext]_vars

\* two overlapping callers: a run started through the API and the
\* scheduler's daily_crawl_job
FairProcs == {1, 2}

FairLockNext ==
    \/ \E p \in FairProcs : Call(p)
    \/ \E p \in FairProcs : TakeProfileLock(p)
    \/ \E p \in FairProcs : GetTest(p)
    \/ \E p \in FairProcs : TakePortLock(p)
    \/ \E p \in FairProcs : PortRelease(p)
    \/ \E p \in FairProcs : PortAcquire(p)
    \/ \E p \in FairProcs : Construct(p)
    \/ \E p \in FairProcs : CrawlReturned(p)
    \/ \E p \in FairProcs : SaveReturned(p)
    \/ \E p \in FairProcs : ReleaseTest(p)
    \/ \E p \in FairProcs : ReleaseExit(p)
    \/ \E p \in FairProcs : CleanupStart(p)
    \/ \E p \in FairProcs : CleanupLoop(p)

\* asyncio.Lock wakes its waiters in the order they arrived and the event
\* loop runs every ready coroutine: a coroutine that can step again and
\* again does step
FairLockSpec ==
    /\ LockInit
    /\ [][FairLockNext]_vars
    /\ \A p \in FairProcs : SF_vars(ProcStep(p))

-----------------------------------------------------------------------------
(***************************************************************************)
(* OptimizedAmazonCrawler: the driver pool and the worker threads of       *)
(* crawl_batch.  _init_pools queues up to max_workers drivers; every task  *)
(* takes a driver (_get_driver), crawls and saves, and gives the driver    *)
(* back in its finally block (_return_driver).  Drivers are numbered in    *)
(* the order they were created.                                            *)
(***************************************************************************)

DriverFrame == UNCHANGED <<poolVars, mainVars, histVars, acquired, lockVars>>

\* the tasks a worker thread of the executor is running
Running == {j \in Jobs : jobs[j].pc \in {"get_driver", "crawl", "return"}}

Queued == {driver_pool[i] : i \in DOMAIN driver_pool}

\* a worker thread of ThreadPoolExecutor(max_workers) picks a submitted task
StartTask(j) ==
    /\ jobs[j].pc = "submitted"
    /\ Cardinality(Running) < max_workers
    /\ jobs' = [jobs EXCEPT ![j].pc = "get_driver"]
    /\ UNCHANGED <<driver_pool, drivers>>
    /\ DriverFrame

\* _get_driver(): the head of the queue, or, after the queue stayed empty
\* for the timeout, a driver of its own; _create_driver may raise, and the
\* task then ends in its except branch with no driver to give back
GetDriver(j) ==
    /\ jobs[j].pc = "get_driver"
    /\ IF driver_pool # <<>>
       THEN /\ jobs' = [jobs EXCEPT ![j].pc = "crawl",
                                    ![j].driver = Head(driver_pool)]
            /\ driver_pool' = Tail(driver_pool)
            /\ UNCHANGED drivers
       ELSE /\ \E create_ok \in
                   (IF drivers.created < MaxDrivers THEN BOOLEAN ELSE {FALSE}) :
                 IF create_ok
                 THEN /\ drivers' = [drivers EXCEPT
                                        !.created = drivers.created + 1]
                      /\ jobs' = [jobs EXCEPT
                                     ![j].pc = "crawl",
                                     ![j].driver = drivers.created + 1]
                 ELSE /\ jobs' = [jobs EXCEPT ![j].pc = "done",
                                              ![j].result = "failed"]
                      /\ UNCHANGED drivers
            /\ UNCHANGED driver_pool
    /\ DriverFrame

\* _get_session, _crawl_product_optimized and _save_to_database_optimized:
\* the task has its return value, or an exception took it to the except
\* branch; the finally block comes next
CrawlDone(j) ==
    /\ jobs[j].pc = "crawl"
    /\ \E r \in {"success", "failed"} :
          jobs' = [jobs EXCEPT ![j].pc = "return", ![j].result = r]
    /\ UNCHANGED <<driver_pool, drivers>>
    /\ DriverFrame

\* self.driver_pool.put(driver, timeout=5); on queue.Full driver.quit()
AfterReturn(pool, ds, d) ==
    IF Len(pool) < max_workers
    THEN [pool |-> Append(pool, d), drivers |-> ds]
    ELSE [pool |-> pool, drivers |-> [ds EXCEPT !.quit = ds.quit \cup {d}]]

\* finally: self._return_driver(driver).  delete_all_cookies and the two
\* execute_script calls come first, inside a try block that catches
\* queue.Full only: when one of them raises (the browser is gone) the
\* exception leaves _return_driver and the task, the driver is neither
\* queued nor quit
ReturnDriver(j) ==
    /\ jobs[j].pc = "return"
    /\ \E clear_ok \in BOOLEAN :
          IF clear_ok
          THEN LET after == AfterReturn(driver_pool, drivers, jobs[j].driver)
               IN /\ driver_pool' = after.pool
                  /\ drivers' = after.drivers
                  /\ jobs' = [jobs EXCEPT ![j].pc = "done"]
          ELSE /\ jobs' = [jobs EXCEPT ![j].pc = "done",
                                       ![j].result = "raised"]
               /\ UNCHANGED <<driver_pool, drivers>>
    /\ DriverFrame

DriverNext ==
    \/ \E j \in Jobs : StartTask(j)
    \/ \E j \in Jobs : GetDriver(j)
    \/ \E j \in Jobs : CrawlDone(j)
    \/ \E j \in Jobs : ReturnDriver(j)

\* OptimizedAmazonCrawler(max_workers) was constructed, _init_pools queued
\* the drivers it could create, and crawl_batch submitted its tasks
DriverInit ==
    /\ PoolInit
    /\ RunIdle
    /\ single = SingleIdle(0)
    /\ WatchIdle
    /\ StepIdle
    /\ HistIdle
    /\ PortIdle
    /\ LockIdle
    /\ DiffIdle
    /\ \E k \in 0 .. max_workers :
          /\ driver_pool = [i \in 1 .. k |-> i]
          /\ drivers = [created |-> k, quit |-> {}]
    /\ \E n \in 1 .. MaxAsins :
          jobs = [j \in Jobs |->
                     IF j <= n THEN [JobIdle EXCEPT !.pc = "submitted"]
                               ELSE JobIdle]

DriverSpec == DriverInit /\ [][DriverNext]_vars

-----------------------------------------------------------------------------
(***************************************************************************)
(* Claims about the batch run and the crawl tasks                          *)
(***************************************************************************)

Returned == run_pc = "returned"

WorkItems == 1 .. asin_data.n

\* C4: whenever _crawl_asins_optimized returns, after all batches or after
\* an error caught inside the run, profile_pool holds no resident and
\* used_ports holds no port that was bound to a profile of that run.
PoolDrainedOnReturn ==
    Returned => /\ Residents(profile_pool) = {}
                /\ used_ports \cap run_ports = {}

\* a run that created profiles has returned
PoolDrainedWitness == Returned /\ run_ports # {}

\* the chunk of item j, for a positive batch_size
ChunkOf(j) == (j - 1) \div batch_size

FailureIsolated ==
    (Returned /\ \E j \in WorkItems : result[j] = "fail") =>
        \A k \in WorkItems : task[k] = "done" /\ result[k] \in {"ok", "fail"}

\* a run has returned in which the first item failed and a later one
\* succeeded
FailureIsolatedWitness ==
    /\ Returned
    /\ \E j \in WorkItems : \E k \in WorkItems :
          j < k /\ result[j] = "fail" /\ result[k] = "ok"

\* C7: for every run that returns, successful_crawls + failed_crawls =
\* total_asins, also for the lists of ASIN strings that daily_crawl_job and
\* the scheduler test pass (stated here for the positive batch sizes the
\* callers use).
StatsAddUp ==
    (Returned /\ batch_size > 0) =>
        crawl_results.successful_crawls + crawl_results.failed_crawls
            = crawl_results.total_asins

\* C8: for every work list and every pattern of per-item failures a run
\* terminates and returns its statistics; it never ends by raising and
\* never blocks forever.
RunTerminates == <>Returned

\* a run has returned in which every item failed
RunTerminatesWitness ==
    /\ Returned
    /\ crawl_results.batches_processed > 0
    /\ crawl_results.successful_crawls = 0
    /\ crawl_results.failed_crawls = crawl_results.total_asins

\* C9: a single-item crawl task always returns a result carrying a success
\* flag, for every failure of port acquisition, session creation, driver
\* setup, navigation, extraction, persistence or watch-list update; no
\* exception escapes the task.
SingleNeverRaises == single.outcome # "raised"

\* C10: every crawl attempt that returns a result has written exactly one
\* snapshot row for its item, never zero and never more than one (stated
\* for the attempts that were handed a session: when such a task returns,
\* its item has exactly one row of this run).
ExactlyOneSnapshot ==
    [][\A j \in Items :
          (task[j] \in {"crawl", "save", "watch"} /\ task'[j] = "done")
              => snapshots'[j] = 1]_vars

-----------------------------------------------------------------------------
(***************************************************************************)
(* Claims about the watch list, the change detector and the daily job      *)
(***************************************************************************)

\* the days between two crawls that a crawl_frequency stands for
PeriodDays(freq) ==
    IF freq = "daily" THEN 1 ELSE IF freq = "weekly" THEN 7 ELSE 30

\* C11: in every reachable state of a watch entry, after any sequence of
\* enrollment, reactivation, crawl completion and removal, whenever both
\* last_crawled and next_crawl are set, next_crawl is strictly later than
\* last_crawled and lies one period of the entry's crawl_frequency (daily,
\* weekly, monthly) after it.
NextCrawlFollowsCadence ==
    \A i \in 1 .. Len(asin_watchlist) :
        LET row == asin_watchlist[i]
        IN (row.last_crawled # Null /\ row.next_crawl # Null) =>
              /\ row.next_crawl > row.last_crawled
              /\ Day(row.next_crawl) - Day(row.last_crawled)
                     = PeriodDays(row.crawl_frequency)

\* C12: when no successful snapshot of the item lies inside yesterday's
\* window, detect_and_notify_changes returns the first-observation result
\* and the notification dispatcher is not invoked, whatever the new data
\* holds.
FirstObservation ==
    (detect_result # "none" /\ history[1] # "ok") =>
        (detect_result = "first_crawl" /\ dispatched = 0)

\* a first observation of an item that has an older successful snapshot
\* which differs from the new data
FirstObservationWitness ==
    /\ detect_result = "first_crawl"
    /\ history[1] # "ok"
    /\ history[2] = "ok"
    /\ \E f \in Fields :
          /\ old_data[f].t # "none"
          /\ new_data[f].t # "none"
          /\ old_data[f] # new_data[f]

\* C13: for every numeric monitored field _compare_data reports a change
\* exactly when the absolute difference between the old and the new value
\* is at least the field's threshold (prices 0.01, counts 1, rating 0.1); a
\* smaller difference is treated as equal.
NumericThreshold ==
    compare_calls > 0 =>
        \A f \in IntFields \cup FloatFields :
            (old_data[f].t = "num" /\ new_data[f].t = "num") =>
                (f \in ChangedFields(changes)
                    <=> Abs(new_data[f].v - old_data[f].v) >= Threshold(f))

\* the elements of a list
Range(s) == {s[i] : i \in 1 .. Len(s)}

\* C14: for every list-of-string monitored field _compare_data compares
\* the old and the new value as sets: the same set of elements gives no
\* change whatever the order and the multiplicity, different sets give a
\* change.
ListsComparedAsSets ==
    compare_calls > 0 =>
        \A f \in ListFields :
            (old_data[f].t = "list" /\ new_data[f].t = "list") =>
                (f \in ChangedFields(changes)
                    <=> Range(old_data[f].v) # Range(new_data[f].v))

\* a value the claim counts as empty: missing, an empty object, or an
\* object whose only content is one sub-key with an empty value
EmptyStructured(value) ==
    \/ value.t = "none"
    \/ /\ value.t = "dict"
       /\ \/ value.v = {}
          \/ Cardinality(value.v) = 1 /\ \A kv \in value.v : kv[2] = ""

\* C15: for every structured monitored field, a missing value, an empty
\* object and an object whose only content is one sub-key with an empty
\* value (for any key name) are the same empty value: _compare_data reports
\* no change between any two of them.
EmptyStructuredEqual ==
    compare_calls > 0 =>
        \A f \in StructFields :
            (EmptyStructured(old_data[f]) /\ EmptyStructured(new_data[f]))
                => f \notin ChangedFields(changes)

\* C17: a failure of the notification dispatcher never changes a crawl's
\* accounting: the step of the crawl task that ran detect_changes ends as it
\* does when the notification was sent, with the same success flag, and the
\* failure does not leave the task.
DispatchFailureIsolated ==
    [][(/\ single.pc = "detect"
        /\ single'.pc # "detect"
        /\ single'.notify \in {"swallowed", "raised"})
          => [single' EXCEPT !.notify = "sent"] = AfterDetect("sent")]_vars

\* a crawl returned a successful result although its notification raised
DispatchFailureWitness ==
    /\ single.pc = "done"
    /\ single.notify = "raised"
    /\ single.outcome = "ok"

\* the positions of the entries of an ASIN in the table
EntriesOf(rows, a) == {i \in DOMAIN rows : rows[i].asin = a}

\* C18: a watch entry is never deleted: remove_asin_from_watchlist only
\* sets is_active to false, a later add_asin_to_watchlist of the same ASIN
\* reactivates that entry (result 'reactivated') and creates no second one,
\* so there is at most one entry per ASIN and the ASINs with an entry never
\* become fewer.
NeverHardDeleted ==
    [][\A a \in Asins :
          LET before == EntriesOf(asin_watchlist, a)
              after == EntriesOf(asin_watchlist', a)
          IN /\ Cardinality(after) <= 1
             /\ before \subseteq after
             /\ (/\ op_result'.op = "remove_asin_from_watchlist"
                 /\ op_result'.asin = a
                 /\ op_result'.result = "true"
                 /\ before # {})
                  => \A i \in before :
                        asin_watchlist'[i] =
                            [asin_watchlist[i] EXCEPT !.is_active = FALSE]
             /\ (/\ op_result'.op = "add_asin_to_watchlist"
                 /\ op_result'.asin = a
                 /\ op_result'.result # "error"
                 /\ \E i \in before : ~asin_watchlist[i].is_active)
                  => /\ op_result'.result = "reactivated"
                     /\ \A i \in after : asin_watchlist'[i].is_active]_vars

\* a removed entry was added again and reactivated
NeverHardDeletedWitness ==
    /\ op_result.result = "reactivated"
    /\ Len(asin_watchlist) = Cardinality(Asins)

\* C19: when daily_crawl_job runs, every active watch entry that is due is
\* crawled in that run (and each item whose crawl succeeded is then
\* compared with yesterday's snapshot and notified on a change).  The job
\* passes the due ASINs as a list of strings; stated for that work list:
\* when the run returns every item of it has been crawled to a result.
DailyJobCrawlsDue ==
    (Returned /\ ~asin_data.dicts) =>
        \A j \in WorkItems : task[j] = "done" /\ result[j] \in {"ok", "fail"}

-----------------------------------------------------------------------------
(***************************************************************************)
(* Claims about sessions, cancellation, the steps of a crawl task and the  *)
(* statistics of a run                                                     *)
(***************************************************************************)

\* C21: at no instant do two crawl tasks run crawl_product on the crawler
\* of the same profile, for every batch_size and max_profiles, also when
\* batch_size > max_profiles makes i % max_profiles repeat in a batch.
NoSharedSession ==
    \A j \in Items : \A k \in Items :
        (j # k /\ task[j] = "crawl" /\ task[k] = "crawl")
            => ProfileIdOf(j) # ProfileIdOf(k)

\* C22: after a cancelled run of _crawl_asins_optimized has unwound,
\* profile_pool is empty and none of the ports of its profiles remain in
\* used_ports.
PoolDrainedOnCancel ==
    run_pc = "cancelled" =>
        /\ Residents(profile_pool) = {}
        /\ used_ports \cap run_ports = {}

\* C23: a crawl task advances its item's watch entry only if its crawl
\* succeeded: a task that ends with success = false leaves last_crawled
\* and next_crawl of the entry unchanged.
WatchAdvancedOnlyOnSuccess ==
    \A j \in Items :
        (task[j] = "done" /\ result[j] = "fail") => ~watchlist[j]

\* C24: a crawl task never reports success for an attempt whose snapshot
\* was not stored: when save_to_database fails to write the row, the
\* task's result has success = false.
NoSuccessWithoutSnapshot ==
    \A j \in Items :
        (task[j] = "done" /\ result[j] = "ok") => snapshots[j] > 0

\* the step a crawl task has just attempted on the session, if any
StepTaken(name) ==
    /\ session'.crawls = session.crawls
    /\ Len(session'.steps) = Len(session.steps) + 1
    /\ session'.steps[Len(session'.steps)] = name

\* the setup block runs only while the crawler's flag is false, the flag
\* rises only in a setup block that succeeded or found the location right,
\* and it never falls again on the session
SetupGuarded ==
    /\ StepTaken("SETUP") => ~session.delivery_location_set
    /\ (~session.delivery_location_set /\ session'.delivery_location_set)
           => StepTaken("SETUP") /\ session'.setup \in {"already", "changed"}
    /\ session.delivery_location_set => session'.delivery_location_set

\* when a task has returned, the profile's delivery_set and the crawler's
\* delivery_location_set say the same
FlagsAgree ==
    session.pc = "done" =>
        session.delivery_set = session.delivery_location_set

\* C25: on a pooled session the one-time setup is attempted only while the
\* setup-done flag is false, the flag becomes true only after a setup that
\* succeeded or found the location already correct, every later crawl on
\* the session skips setup, and the profile's delivery_set and the
\* crawler's delivery_location_set never disagree about this.
SetupDoneOnce == [][SetupGuarded /\ FlagsAgree']_vars

\* the place of a step in the order NAVIGATE, SETUP, EXTRACT, PERSIST
StepRank(name) ==
    CASE name = "NAVIGATE" -> 1
      [] name = "SETUP" -> 2
      [] name = "EXTRACT" -> 3
      [] name = "PERSIST" -> 4

\* the steps follow the order, none of them twice
StepsInOrder(steps) ==
    \A a \in DOMAIN steps : \A b \in DOMAIN steps :
        a < b => StepRank(steps[a]) < StepRank(steps[b])

\* C26: a crawl task passes through its steps only in the order NAVIGATE,
\* SETUP (at most once), EXTRACT, PERSIST; EXTRACT is never attempted
\* unless NAVIGATE succeeded; a NAVIGATE failure gives a failed result that
\* carries the captured error; a task that has returned its result does no
\* further step on the session.
StepOrder ==
    [][/\ StepsInOrder(session'.steps)
       /\ "EXTRACT" \in Range(session'.steps) => session'.navigated = "ok"
       /\ (session'.pc = "done" /\ session'.navigated = "failed")
              => session'.result = "fail" /\ session'.error = "navigate"
       /\ (session.pc = "done" /\ session'.crawls = session.crawls)
              => session'.steps = session.steps]_vars

\* on a reused session a task whose page did not load has returned, after
\* NAVIGATE and PERSIST only
StepOrderWitness ==
    /\ session.crawls > 1
    /\ session.pc = "done"
    /\ session.navigated = "failed"
    /\ session.steps = <<"NAVIGATE", "PERSIST">>

\* ceil(n / b) for a positive b
CeilDiv(n, b) == (n + b - 1) \div b

\* C27: a run partitions the work list into consecutive chunks of
\* batch_size and launches one crawl task per item: when it returns, every
\* item has been crawled by its task and batches_processed equals
\* ceil(N / batch_size), also for a work list of plain ASIN strings.
EveryItemCrawledOnce ==
    (Returned /\ batch_size > 0) =>
        /\ \A j \in WorkItems : task[j] = "done"
        /\ crawl_results.batches_processed
               = CeilDiv(asin_data.n, batch_size)

ProfileIdInChunk(j) == ((j - 1) % batch_size) % max_profiles

\* C29: the profiles_used value a run returns is the number of distinct
\* profiles its crawl tasks used over all chunks (stated for the runs in
\* which every task got its profile and crawled with success).
ProfilesUsedDistinct ==
    (Returned /\ batch_size > 0 /\ \A j \in WorkItems : result[j] = "ok") =>
        crawl_results.profiles_used
            = Cardinality({ProfileIdInChunk(j) : j \in WorkItems})

\* C30: the detector only compares successful snapshots: when the crawl
\* that produced new_data failed (crawl_success = false), its detection
\* yields no change-set and send_notification is not invoked.
OnlySuccessfulCompared ==
    ~crawl_success => (dispatched = 0 /\ detect_result # "has_changes")

-----------------------------------------------------------------------------
(***************************************************************************)
(* Claims about string fields, the change history, the pool's frame, its   *)
(* locks and the driver pool of OptimizedAmazonCrawler                     *)
(***************************************************************************)

\* C31: for every string monitored field _compare_data compares the old
\* and the new value after whitespace normalization: strings that differ
\* only in surrounding whitespace give no change, strings whose normalized
\* texts differ give a change, also when both texts parse as numbers or as
\* "nan".
StringsComparedNormalized ==
    \A f \in StringFields :
        (compare_calls > 0 /\ old_data[f].t = "str" /\ new_data[f].t = "str")
            => (f \in ChangedFields(changes) <=> old_data[f].v # new_data[f].v)

\* the rows of the query result that are successful snapshots
SuccessfulRows(rows) == SelectSeq(rows, LAMBDA r : r.crawl_success)

\* C32: get_change_history returns its entries newest-first, each entry
\* being the change-set between two consecutive successful snapshots of
\* the window: a failed snapshot is never one side of a compared pair and
\* a pair with an empty change-set yields no entry.
HistoryOfSuccessfulPairs ==
    change_history.called =>
        change_history.entries = HistoryFrom(SuccessfulRows(crawl_rows), 1)

\* C33: _get_available_port always returns a port of the fixed range, also
\* when every port is held (the held-set is then cleared, the call does not
\* wait); when a port was free at the call, the returned port was not in
\* the held-set before the call; after the call it is in the held-set.
PortFreshlyHeld ==
    [][/\ PortChoices(used_ports') # {}
       /\ acquired' # acquired =>
              /\ acquired'.port \in port_pool
              /\ acquired'.port \in used_ports'
              /\ AvailablePorts(used_ports) # {}
                     => acquired'.port \notin used_ports]_vars

\* a call found every port held and returned one
PortFreshlyHeldWitness ==
    /\ acquired.before = port_pool
    /\ acquired.port \in used_ports

\* C34: _get_or_create_profile for a resident profile id returns the
\* resident and changes nothing: the resident map (so the profile's port and
\* its delivery_set flag) and the allocator's held-set are as before, no
\* port is acquired.
ReuseChangesNothing ==
    [][\A j \in Items :
          (/\ task[j] = "created"
           /\ task'[j] = "crawl"
           /\ ProfileIdOf(j) \in Residents(profile_pool))
              => /\ profile_pool' = profile_pool
                 /\ used_ports' = used_ports]_vars

\* a task of a later chunk crawls with a resident whose setup was done by
\* a task of an earlier chunk
ReuseWitness ==
    \E j \in Items :
        /\ task[j] = "crawl"
        /\ batch_start > 0
        /\ ProfileIdOf(j) \in Residents(profile_pool)
        /\ profile_pool[ProfileIdOf(j)].delivery_set

\* C37: between pool operations the allocator's used_ports is exactly the
\* set of ports bound to resident profiles: no port is held without a
\* resident, no resident is bound to a port that used_ports lacks.
HeldPortsAreBound == used_ports = BoundPorts(profile_pool)

\* the program points at which a coroutine waits for profile_lock
WaitsForProfileLock(p) ==
    procs[p].pc \in {"get_lock", "release_lock", "cleanup_lock"}

\* the program points at which a coroutine waits for port_lock
WaitsForPortLock(p) == procs[p].pc \in {"port_lock", "acquire_lock"}

\* the program points of a task between obtaining its profile and the
\* return of save_to_database: NAVIGATE, SETUP and EXTRACT run inside
\* crawl_product, PERSIST is save_to_database
Crawling(p) == procs[p].pc \in {"crawl", "save"}

\* C35: no crawl task holds profile_lock or port_lock while it navigates,
\* sets up, extracts or persists, so a task in a long extraction does not
\* keep another coroutine from the pool's or the allocator's bookkeeping.
NoLockWhileCrawling ==
    \A p \in LockProcs :
        Crawling(p) => (profile_lock # p /\ port_lock # p)

\* a task is in its crawl while another coroutine is inside the pool's
\* bookkeeping and holds both locks
NoLockWhileCrawlingWitness ==
    \E p, q \in LockProcs :
        /\ procs[p].pc = "crawl"
        /\ profile_lock = q
        /\ port_lock = q

\* a waiting coroutine does not hold the lock it waits for, and port_lock
\* is not held by a coroutine that waits for profile_lock
LockOrder ==
    \A p \in LockProcs :
        /\ WaitsForProfileLock(p) => (profile_lock # p /\ port_lock # p)
        /\ WaitsForPortLock(p) => port_lock # p
        /\ port_lock = p => profile_lock = p

\* C38: the two locks never deadlock: profile_lock is taken before
\* port_lock, port_lock is not held while waiting for profile_lock, no lock
\* is re-acquired by its holder, and every call of a crawl task,
\* _release_profile and cleanup completes under every interleaving.
LocksNeverDeadlock ==
    /\ []LockOrder
    /\ \A p \in FairProcs :
          (procs[p].pc # "idle") ~> (procs[p].pc = "done")

\* a coroutine holds both locks while another one waits for profile_lock
LocksNeverDeadlockWitness ==
    \E p, q \in LockProcs :
        /\ profile_lock = p
        /\ port_lock = p
        /\ WaitsForProfileLock(q)

\* C36: a session is not closed while a crawl task uses it: between the
\* moment a task obtained a profile and the end of its crawl, neither
\* cleanup nor an eviction closes that profile's crawler, also when the
\* calls of two runs on the shared importer overlap.
NotClosedWhileInUse ==
    \A p \in LockProcs : procs[p].pc = "crawl" => ~procs[p].closed

\* the tasks that hold a driver
UsingDriver == {j \in Jobs : jobs[j].pc \in {"crawl", "return"}}

DriverExclusive ==
    /\ \A j, k \in UsingDriver : j # k => jobs[j].driver # jobs[k].driver
    /\ \A j \in UsingDriver : jobs[j].driver \notin Queued

DriverPoolBounded == Len(driver_pool) <= max_workers

\* the driver of every task that returns in this step is queued or quit
DriverGivenBack ==
    \A j \in Jobs :
        (jobs[j].pc # "done" /\ jobs'[j].pc = "done"
            /\ jobs[j].driver # NoDriver)
           => \/ jobs[j].driver \in {driver_pool'[i] : i \in DOMAIN driver_pool'}
              \/ jobs[j].driver \in drivers'.quit

\* C39: in OptimizedAmazonCrawler, under every interleaving of the worker
\* threads of crawl_batch, a driver is used by at most one worker at a
\* time, the driver pool never holds more than max_workers drivers, and
\* every driver a worker took is back in the pool or quit when that
\* worker's task has returned, whether it succeeded or raised.
DriversAccountedFor ==
    /\ []DriverExclusive
    /\ []DriverPoolBounded
    /\ [][DriverGivenBack]_vars

=============================================================================
